---- MODULE Spec2Model ----
(***************************************************************************)
(* Model of the tiling expansion engine and path emitter of tile-draw      *)
(* (src/src/tiling.rs, src/src/main.rs), specification Spec, and of the    *)
(* selection, drag and snap logic of its rule editor                       *)
(* (src/src/tiling_editor_ui.rs), specification EditorSpec; specification  *)
(* WindowSpec adds the editor window around it: the rule selector, the     *)
(* index check and frames that report two events.                          *)
(*                                                                         *)
(* Numbers.  The program computes in f64.  The model keeps every number as *)
(* an integer count of 1/Unit, Unit a power of two; the rule sets and      *)
(* inputs used here only hold dyadic values, on which f64 arithmetic is    *)
(* exact, so the fixed-point value is the f64 value.  A product that would *)
(* leave the representable grid evaluates to a string, on which TLC stops. *)
(*                                                                         *)
(* Indices.  tile_id and the loop counters are 0-based as in the source;   *)
(* TLA+ sequences are 1-based, so rules[tile_id] of the source is          *)
(* rules[tile_id + 1] here.                                                *)
(***************************************************************************)
EXTENDS Integers, Sequences, FiniteSets

\* ------------------------------------------------------------ bounds ----
MaxLevels == 2
MaxInput == 2
MaxLimit == 3
MaxGestures == 2

\* -------------------------------------------------------- arithmetic ----
Unit == 2^6

Num(n) == n * Unit

Half == Unit \div 2

FMul(x, y) == IF (x * y) % Unit = 0 THEN (x * y) \div Unit ELSE "inexact"

FMin(x, y) == IF x <= y THEN x ELSE y

FMax(x, y) == IF x >= y THEN x ELSE y

\* ------------------------------------------------- kurbo primitives ----
\* Point and Vec2 are <<x, y>>; Affine is its coefficient array
\* <<a, b, c, d, e, f>>; Rect is <<x0, y0, x1, y1>>.
Pt(x, y) == <<Num(x), Num(y)>>

IDENTITY == <<Unit, 0, 0, Unit, 0, 0>>

AffineScale(s) == <<s, 0, 0, s, 0, 0>>

AffineTranslate(v) == <<Unit, 0, 0, Unit, v[1], v[2]>>

AffineMul(s, o) ==
    << FMul(s[1], o[1]) + FMul(s[3], o[2]),
       FMul(s[2], o[1]) + FMul(s[4], o[2]),
       FMul(s[1], o[3]) + FMul(s[3], o[4]),
       FMul(s[2], o[3]) + FMul(s[4], o[4]),
       FMul(s[1], o[5]) + FMul(s[3], o[6]) + s[5],
       FMul(s[2], o[5]) + FMul(s[4], o[6]) + s[6] >>

AffineApply(t, p) ==
    << FMul(t[1], p[1]) + FMul(t[3], p[2]) + t[5],
       FMul(t[2], p[1]) + FMul(t[4], p[2]) + t[6] >>

then_translate(t, v) == <<t[1], t[2], t[3], t[4], t[5] + v[1], t[6] + v[2]>>

pre_translate(t, v) == AffineMul(t, AffineTranslate(v))

translation(t) == <<t[5], t[6]>>

ROT90 == <<0, Unit, -Unit, 0, 0, 0>>

RectFromOriginSize(p, w, h) ==
    << FMin(p[1], p[1] + w), FMin(p[2], p[2] + h),
       FMax(p[1], p[1] + w), FMax(p[2], p[2] + h) >>

RectUnionPt(r, p) ==
    << FMin(r[1], p[1]), FMin(r[2], p[2]), FMax(r[3], p[1]), FMax(r[4], p[2]) >>

RectWidth(r) == r[3] - r[1]

RectHeight(r) == r[4] - r[2]

RectInflate(r, w, h) == << r[1] - w, r[2] - h, r[3] + w, r[4] + h >>

RectIntersect(r, o) ==
    LET x0 == FMax(r[1], o[1])
        y0 == FMax(r[2], o[2])
        x1 == FMin(r[3], o[3])
        y1 == FMin(r[4], o[4])
    IN  << x0, y0, FMax(x1, x0), FMax(y1, y0) >>

RectIsEmpty(r) == RectWidth(r) * RectHeight(r) = 0

\* --------------------------------------------------------- data model ----
Placement(id, t) == [tile_id |-> id, transform |-> t]

Rule(corners, result) == [tile |-> [corners |-> corners], result |-> result]

\* Option<T> is <<>> for None and <<x>> for Some(x).
None == <<>>

Some(x) == <<x>>

\* ------------------------------------------------------- rule sets ----
\* Variant: the third copy placed at the offset of the second.
SQUARE_GRID_overlap ==
    << Rule(<< Pt(0, 0), Pt(0, 1), Pt(1, 1), Pt(1, 0) >>,
            << Placement(0, pre_translate(AffineScale(Half), <<0, 0>>)),
               Placement(0, then_translate(AffineScale(Half), <<Half, 0>>)),
               Placement(0, then_translate(AffineScale(Half), <<Half, 0>>)),
               Placement(0, then_translate(AffineScale(Half), <<Half, Half>>)) >>) >>

\* The square-grid sample of main.rs.
SQUARE_GRID ==
    << Rule(<< Pt(0, 0), Pt(0, 1), Pt(1, 1), Pt(1, 0) >>,
            << Placement(0, pre_translate(AffineScale(Half), <<0, 0>>)),
               Placement(0, then_translate(AffineScale(Half), <<Half, 0>>)),
               Placement(0, then_translate(AffineScale(Half), <<0, Half>>)),
               Placement(0, then_translate(AffineScale(Half), <<Half, Half>>)) >>) >>

\* TilingStep::new(): no rules at all.
NEW_STEP == << >>

\* Two mutually recursive tiles, fan-out 2 and 3, with a rotation, a scale
\* and translations (transforms that do not commute).
TWO_TILE ==
    << Rule(<< Pt(0, 0), Pt(1, 0), Pt(0, 1) >>,
            << Placement(1, then_translate(ROT90, Pt(1, 0))),
               Placement(0, AffineTranslate(Pt(2, 0))) >>),
       Rule(<< Pt(0, 0), Pt(0, 1), Pt(1, 1), Pt(1, 0) >>,
            << Placement(0, AffineScale(Num(2))),
               Placement(1, ROT90),
               Placement(0, AffineTranslate(Pt(0, 1))) >>) >>

\* A structural tile without corners, a tile with one corner and no
\* children, and a square with a single half-scale child.
PLACEHOLDER ==
    << Rule(<< >>,
            << Placement(2, IDENTITY),
               Placement(1, AffineTranslate(Pt(3, 0))),
               Placement(2, AffineTranslate(Pt(0, 1))) >>),
       Rule(<< Pt(1, 1) >>, << >>),
       Rule(<< Pt(0, 0), Pt(0, 1), Pt(1, 1), Pt(1, 0) >>,
            << Placement(0, AffineScale(Half)) >>) >>

\* A malformed rule set: a child refers to a tile id that is no rule.
BROKEN ==
    << Rule(<< Pt(0, 0), Pt(0, 1), Pt(1, 1), Pt(1, 0) >>,
            << Placement(0, AffineTranslate(Pt(1, 0))),
               Placement(5, IDENTITY) >>) >>

RuleSets == { SQUARE_GRID, NEW_STEP, TWO_TILE, PLACEHOLDER, BROKEN }

\* Root placements: tile 0 as it is and doubled and moved, tile 1 as it is.
MOVED == then_translate(AffineScale(Num(2)), Pt(1, 0))

Roots == { Placement(0, IDENTITY), Placement(0, MOVED), Placement(1, IDENTITY) }

RECURSIVE SeqsUpTo(_, _)
SeqsUpTo(S, n) ==
    IF n = 0 THEN { << >> }
    ELSE LET shorter == SeqsUpTo(S, n - 1)
         IN  shorter \cup { Append(s, x) : s \in { t \in shorter : Len(t) = n - 1 }, x \in S }

Inputs == SeqsUpTo(Roots, MaxInput)

Limits == { None } \cup { Some(m) : m \in 0..MaxLimit }

UNIT_BOUND == << 0, 0, Num(1), Num(1) >>

WIDE_BOUND == << Num(-8), Num(-8), Num(8), Num(8) >>

FAR_BOUND == << Num(20), Num(20), Num(22), Num(22) >>

Bounds == { UNIT_BOUND, WIDE_BOUND, FAR_BOUND }

\* What the caller's output vector holds before the call.
Priors == { << >>, << Placement(0, ROT90) >> }

\* Values of initial_scale.
InitialScales == { Unit, Num(2) }

\* The bound argument of expand_0_levels, an Option<Rect>.
OptionalBounds == { None } \cup { Some(r) : r \in Bounds }

DEFAULT_POLYGON_LIMIT == 1000000

\* ------------------------------------------------------ editor data ----
\* enum Selection.
NoSelection == [kind |-> "None"]

Points(shape, corners) == [kind |-> "Points", shape |-> shape, corners |-> corners]

Shapes(shapes) == [kind |-> "Shapes", shapes |-> shapes]

\* Vec::contains.
contains(v, x) == \E k \in 1..Len(v) : v[k] = x

DRAG_START == 5

\* SNAP_DISTANCE is 0.04 = 1 / SNAP_DISTANCE_INV.
SNAP_DISTANCE_INV == 25

\* dis < SNAP_DISTANCE * SNAP_DISTANCE, dis a squared length counted in
\* 1/Unit^2.
WithinSnap(dis) == dis * (SNAP_DISTANCE_INV * SNAP_DISTANCE_INV) < Unit * Unit

Sub(p, q) == << p[1] - q[1], p[2] - q[2] >>

length_squared(v) == v[1] * v[1] + v[2] * v[2]

ROT180 == << -Unit, 0, 0, -Unit, 0, 0 >>

\* The rule set under edit: a tile of two corners, (0,0) and (1,0), made
\* of two copies of itself, the first turned round.  In units of 1/Unit
\* the tile spans (0,0)-(64,0) and the copies (130,1)-(66,1) and
\* (54,0)-(118,0): corner 1 of the first copy is within the snap distance
\* of corner 1 of the tile (squared distance 5), and moving the second
\* copy by (12,0) brings its corners within it of the tile (4) and of the
\* first copy (1).
EDIT_RULES ==
    << Rule(<< Pt(0, 0), Pt(1, 0) >>,
            << Placement(0, then_translate(ROT180, << 2 * Unit + 2, 1 >>)),
               Placement(0, AffineTranslate(<< Unit - 10, 0 >>)) >>) >>

\* A rule set of two rules for the window: the rule above, and a second
\* tile made of one copy of the first.
WINDOW_RULES ==
    << EDIT_RULES[1],
       Rule(<< Pt(0, 0), Pt(0, 1) >>,
            << Placement(0, AffineTranslate(<< 0, Unit >>)) >>) >>

\* The view: the model square -2..2 (y pointing up) drawn on a painter of
\* 128 x 128 screen units.
TargetRect == << Num(-2), Num(2), Num(2), Num(-2) >>

ScreenRect == << 0, 0, 2 * Unit, 2 * Unit >>

\* draw_transform.inverse().transform_pos(p).
InverseView(p) ==
    << TargetRect[1]
         + ((p[1] - ScreenRect[1]) * (TargetRect[3] - TargetRect[1]))
             \div (ScreenRect[3] - ScreenRect[1]),
       TargetRect[2]
         + ((p[2] - ScreenRect[2]) * (TargetRect[4] - TargetRect[2]))
             \div (ScreenRect[4] - ScreenRect[2]) >>

\* Pointer positions on the screen: where a drag starts, and where the
\* pointer goes from there: 5 units away, 6 units away.
DragStarts == { << 40, 40 >> }

PointerPositions == { << 43, 44 >>, << 46, 40 >> }

\* What one frame reports: the kind of event, the placement j and corner
\* i it is about, the shift modifier, the pointer position.
Event(kind, j, c, shift, p) ==
    [kind |-> kind, j |-> j, i |-> c, shift |-> shift, p |-> p]

NoEvent == Event("none", 0, 0, FALSE, << 0, 0 >>)

\* ------------------------------------------------------------ state ----
VARIABLES
    rules,      \* TilingStep.rules
    op,         \* which method the caller invokes
    input,      \* argument input / tiles
    levels,     \* argument levels
    max_tiles,  \* argument max_tiles
    bounds,     \* argument bounds
    prior,      \* content of the output vector at the call
    initial_scale,  \* argument of expand_0_levels; None in a direct call
    output,     \* the caller's output vector
    a,          \* local a: the current generation
    b,          \* local b: the generation being built
    i,          \* outer loop counter _i
    idx,        \* position of the inner iterator in a / in tiles
    path,       \* local result of to_bez_path (the BezPath elements)
    pc,         \* "call", "loop", "done" (returned) or "fault" (panic)
    current_tile,     \* WindowState.current_tile
    selection,        \* WindowState.selection
    drag_transforms,  \* WindowState.drag_transforms
    drag_start_p,     \* WindowState.drag_start_p (screen position)
    drag_activated,   \* WindowState.drag_activated
    snap,             \* WindowState.snap
    frame,      \* what the GUI reports in the current frame (the event)
    held,       \* the placement the pointer is held down on, if any
    gestures    \* number of drag gestures started so far

vars == << rules, op, input, levels, max_tiles, bounds, prior, initial_scale, output,
           a, b, i, idx, path, pc,
           current_tile, selection, drag_transforms, drag_start_p,
           drag_activated, snap, frame, held, gestures >>

args == << rules, op, input, levels, max_tiles, bounds, prior, initial_scale >>

\* The editor window's state and its environment.
window == << current_tile, selection, drag_transforms, drag_start_p,
            drag_activated, snap, frame, held, gestures >>

\* The state of a call of the expansion engine or the path emitter.
engine == << op, input, levels, max_tiles, bounds, prior, initial_scale, output,
            a, b, i, idx, path, pc >>

ValidId(id) == id < Len(rules)

\* ------------------------------------------------------- TilingStep ----
\* Variant: the product taken as new_tile.transform * placed_tile.transform.
expand_tile_reversed(placed_tile, out) ==
    LET rule == rules[placed_tile.tile_id + 1]
    IN  out \o [ k \in 1..Len(rule.result) |->
                   Placement(rule.result[k].tile_id,
                             AffineMul(rule.result[k].transform, placed_tile.transform)) ]

\* Variant: the loop over rule.result misses the first child.
expand_tile_skipfirst(placed_tile, out) ==
    LET rule == rules[placed_tile.tile_id + 1]
    IN  out \o [ k \in 1..(Len(rule.result) - 1) |->
                   Placement(rule.result[k + 1].tile_id,
                             AffineMul(placed_tile.transform, rule.result[k + 1].transform)) ]

expand_tile(placed_tile, out) ==
    LET rule == rules[placed_tile.tile_id + 1]
    IN  out \o [ k \in 1..Len(rule.result) |->
                   Placement(rule.result[k].tile_id,
                             AffineMul(placed_tile.transform, rule.result[k].transform)) ]

\* Variant: the test reads the length of the parent generation.
LimitExceeded_parent(out) == max_tiles # None /\ max_tiles[1] < Len(a)

LimitExceeded(out) == max_tiles # None /\ max_tiles[1] < Len(out)

RECURSIVE UnionCorners(_, _, _, _)
UnionCorners(r, corners, t, k) ==
    IF k > Len(corners) THEN r
    ELSE UnionCorners(RectUnionPt(r, AffineApply(t, corners[k])), corners, t, k + 1)

estimate_bounds(placed_tile) ==
    LET tile == rules[placed_tile.tile_id + 1]
        start == RectFromOriginSize(translation(placed_tile.transform), 0, 0)
        result == UnionCorners(start, tile.tile.corners, placed_tile.transform, 1)
        max_size == FMax(RectWidth(result), RectHeight(result))
    IN  RectInflate(result, max_size, max_size)

Culled(placed_tile) == RectIsEmpty(RectIntersect(estimate_bounds(placed_tile), bounds))

\* Tile::add_to_path_t: the path elements one tile appends.
MoveTo(p) == [el |-> "MoveTo", p |-> p]

LineTo(p) == [el |-> "LineTo", p |-> p]

ClosePath == [el |-> "ClosePath", p |-> << >>]

\* Variant: the loop is left open (no close_path).
add_to_path_t_open(tile, out, transform) ==
    IF Len(tile.corners) = 0 THEN out
    ELSE Append(out, MoveTo(AffineApply(transform, tile.corners[1])))
            \o [ k \in 1..(Len(tile.corners) - 1) |->
                   LineTo(AffineApply(transform, tile.corners[k + 1])) ]

add_to_path_t(tile, out, transform) ==
    IF Len(tile.corners) = 0 THEN out
    ELSE (Append(out, MoveTo(AffineApply(transform, tile.corners[1])))
            \o [ k \in 1..(Len(tile.corners) - 1) |->
                   LineTo(AffineApply(transform, tile.corners[k + 1])) ])
            \o << ClosePath >>

\* main.rs to_bez_path, the body of its loop for one tile: move_to the
\* first corner, line_to every corner (the first included), line_to the
\* first corner again; no close_path.
main_add_to_path(tile, out, transform) ==
    IF Len(tile.corners) = 0 THEN out
    ELSE (Append(out, MoveTo(AffineApply(transform, tile.corners[1])))
            \o [ k \in 1..Len(tile.corners) |->
                   LineTo(AffineApply(transform, tile.corners[k])) ])
            \o << LineTo(AffineApply(transform, tile.corners[1])) >>

\* ------------------------------------------------------------- Init ----
InitLocals ==
    /\ a = << >>
    /\ b = << >>
    /\ i = 0
    /\ idx = 0
    /\ path = << >>
    /\ pc = "call"

InitExpandLevels ==
    /\ op = "expand_levels"
    /\ initial_scale = None
    /\ levels \in 0..MaxLevels
    /\ max_tiles \in Limits
    /\ bounds = WIDE_BOUND
    /\ prior \in Priors

InitExpandBound ==
    /\ op = "expand_bound"
    /\ initial_scale = None
    /\ levels \in 0..MaxLevels
    /\ max_tiles \in Limits
    /\ bounds \in Bounds
    /\ prior \in Priors

InitToBezPath ==
    /\ op = "to_bez_path"
    /\ initial_scale = None
    /\ levels = 0
    /\ max_tiles = None
    /\ bounds = WIDE_BOUND
    /\ prior = << >>

\* WindowState::default(); no frame yet, pointer up.
InitWindow ==
    /\ current_tile = 0
    /\ selection = NoSelection
    /\ drag_transforms = << >>
    /\ drag_start_p = << 0, 0 >>
    /\ drag_activated = FALSE
    /\ snap = TRUE
    /\ frame = NoEvent
    /\ held = None
    /\ gestures = 0

InitMainToBezPath ==
    /\ op = "main_to_bez_path"
    /\ initial_scale = None
    /\ levels = 0
    /\ max_tiles = None
    /\ bounds = WIDE_BOUND
    /\ prior = << >>

\* A call of expand_0_levels: the input list is built by the callee.
InitExpand0Levels ==
    /\ op = "expand_0_levels"
    /\ initial_scale \in { Some(s) : s \in InitialScales }
    /\ input = << >>
    /\ levels \in 0..MaxLevels
    /\ max_tiles = None
    /\ bounds \in OptionalBounds
    /\ prior \in Priors

Init ==
    /\ rules \in RuleSets
    /\ input \in Inputs
    /\ \/ InitExpandLevels
       \/ InitExpandBound
       \/ InitToBezPath
       \/ InitMainToBezPath
       \/ InitExpand0Levels
    /\ output = prior
    /\ InitLocals
    /\ InitWindow

\* ---------------------------------------------------- expand_levels ----
\* let mut a = input.clone(); let mut b = Vec::new();
ExpandLevelsEnter ==
    /\ op = "expand_levels" /\ pc = "call"
    /\ a' = input
    /\ b' = << >>
    /\ i' = 0
    /\ idx' = 0
    /\ pc' = "loop"
    /\ UNCHANGED << window, args, output, path >>

\* Variant: reaching the limit leaves the outer loop as well.
ExpandLevelsTile_stop ==
    /\ op = "expand_levels" /\ pc = "loop"
    /\ i < levels /\ idx < Len(a)
    /\ ValidId(a[idx + 1].tile_id)
    /\ LET nb == expand_tile(a[idx + 1], b)
       IN  IF LimitExceeded(nb)
           THEN /\ a' = nb
                /\ b' = << >>
                /\ i' = levels
                /\ idx' = 0
           ELSE /\ b' = nb
                /\ idx' = idx + 1
                /\ UNCHANGED << a, i >>
    /\ UNCHANGED << window, args, output, path, pc >>

\* One pass of the inner loop body on a valid tile: expand_tile, then the
\* limit test; on break the swap and clear that end the outer pass follow.
ExpandLevelsTile ==
    /\ op = "expand_levels" /\ pc = "loop"
    /\ i < levels /\ idx < Len(a)
    /\ ValidId(a[idx + 1].tile_id)
    /\ LET nb == expand_tile(a[idx + 1], b)
       IN  IF LimitExceeded(nb)
           THEN /\ a' = nb
                /\ b' = << >>
                /\ i' = i + 1
                /\ idx' = 0
           ELSE /\ b' = nb
                /\ idx' = idx + 1
                /\ UNCHANGED << a, i >>
    /\ UNCHANGED << window, args, output, path, pc >>

\* self.rules[placed_tile.tile_id] with tile_id out of range panics.
ExpandLevelsFault ==
    /\ op = "expand_levels" /\ pc = "loop"
    /\ i < levels /\ idx < Len(a)
    /\ ~ValidId(a[idx + 1].tile_id)
    /\ pc' = "fault"
    /\ UNCHANGED << window, args, output, a, b, i, idx, path >>

\* Variant: the swap without b.clear(), so the parents stay in b.
ExpandLevelsSwap_noclear ==
    /\ op = "expand_levels" /\ pc = "loop"
    /\ i < levels /\ idx = Len(a)
    /\ a' = b
    /\ b' = a
    /\ i' = i + 1
    /\ idx' = 0
    /\ UNCHANGED << window, args, output, path, pc >>

\* The inner loop ran to its end: std::mem::swap(&mut a, &mut b); b.clear().
ExpandLevelsSwap ==
    /\ op = "expand_levels" /\ pc = "loop"
    /\ i < levels /\ idx = Len(a)
    /\ a' = b
    /\ b' = << >>
    /\ i' = i + 1
    /\ idx' = 0
    /\ UNCHANGED << window, args, output, path, pc >>

\* output.append(&mut a)
ExpandLevelsReturn ==
    /\ op = "expand_levels" /\ pc = "loop"
    /\ i >= levels
    /\ output' = output \o a
    /\ a' = << >>
    /\ pc' = "done"
    /\ UNCHANGED << window, args, b, i, idx, path >>

\* ----------------------------------------------------- expand_bound ----
ExpandBoundEnter ==
    /\ op = "expand_bound" /\ pc = "call"
    /\ a' = input
    /\ b' = << >>
    /\ i' = 0
    /\ idx' = 0
    /\ pc' = "loop"
    /\ UNCHANGED << window, args, output, path >>

\* if tile_bounds.intersect(bounds).is_empty() { continue; }
ExpandBoundSkip ==
    /\ op = "expand_bound" /\ pc = "loop"
    /\ i < levels /\ idx < Len(a)
    /\ ValidId(a[idx + 1].tile_id)
    /\ Culled(a[idx + 1])
    /\ idx' = idx + 1
    /\ UNCHANGED << window, args, output, a, b, i, path, pc >>

ExpandBoundTile ==
    /\ op = "expand_bound" /\ pc = "loop"
    /\ i < levels /\ idx < Len(a)
    /\ ValidId(a[idx + 1].tile_id)
    /\ ~Culled(a[idx + 1])
    /\ LET nb == expand_tile(a[idx + 1], b)
       IN  IF LimitExceeded(nb)
           THEN /\ a' = nb
                /\ b' = << >>
                /\ i' = i + 1
                /\ idx' = 0
           ELSE /\ b' = nb
                /\ idx' = idx + 1
                /\ UNCHANGED << a, i >>
    /\ UNCHANGED << window, args, output, path, pc >>

\* estimate_bounds indexes self.rules[placed_tile.tile_id] first.
ExpandBoundFault ==
    /\ op = "expand_bound" /\ pc = "loop"
    /\ i < levels /\ idx < Len(a)
    /\ ~ValidId(a[idx + 1].tile_id)
    /\ pc' = "fault"
    /\ UNCHANGED << window, args, output, a, b, i, idx, path >>

ExpandBoundSwap ==
    /\ op = "expand_bound" /\ pc = "loop"
    /\ i < levels /\ idx = Len(a)
    /\ a' = b
    /\ b' = << >>
    /\ i' = i + 1
    /\ idx' = 0
    /\ UNCHANGED << window, args, output, path, pc >>

\* Variant: the returned generation is culled against the bound as well.
InsideBound(placed_tile) == ~ValidId(placed_tile.tile_id) \/ ~Culled(placed_tile)

ExpandBoundReturn_cull ==
    /\ op = "expand_bound" /\ pc = "loop"
    /\ i >= levels
    /\ output' = output \o SelectSeq(a, InsideBound)
    /\ a' = << >>
    /\ pc' = "done"
    /\ UNCHANGED << window, args, b, i, idx, path >>

\* Variant: the generation replaces the content of the output vector.
ExpandBoundReturn_replace ==
    /\ op = "expand_bound" /\ pc = "loop"
    /\ i >= levels
    /\ output' = a
    /\ a' = << >>
    /\ pc' = "done"
    /\ UNCHANGED << window, args, b, i, idx, path >>

ExpandBoundReturn ==
    /\ op = "expand_bound" /\ pc = "loop"
    /\ i >= levels
    /\ output' = output \o a
    /\ a' = << >>
    /\ pc' = "done"
    /\ UNCHANGED << window, args, b, i, idx, path >>

\* ------------------------------------------------------ to_bez_path ----
ToBezPathEnter ==
    /\ op = "to_bez_path" /\ pc = "call"
    /\ path' = << >>
    /\ idx' = 0
    /\ pc' = "loop"
    /\ UNCHANGED << window, args, output, a, b, i >>

ToBezPathTile ==
    /\ op = "to_bez_path" /\ pc = "loop"
    /\ idx < Len(input)
    /\ ValidId(input[idx + 1].tile_id)
    /\ path' = add_to_path_t(rules[input[idx + 1].tile_id + 1].tile, path,
                             input[idx + 1].transform)
    /\ idx' = idx + 1
    /\ UNCHANGED << window, args, output, a, b, i, pc >>

ToBezPathFault ==
    /\ op = "to_bez_path" /\ pc = "loop"
    /\ idx < Len(input)
    /\ ~ValidId(input[idx + 1].tile_id)
    /\ pc' = "fault"
    /\ UNCHANGED << window, args, output, a, b, i, idx, path >>

ToBezPathReturn ==
    /\ op = "to_bez_path" /\ pc = "loop"
    /\ idx = Len(input)
    /\ pc' = "done"
    /\ UNCHANGED << window, args, output, a, b, i, idx, path >>

\* ------------------------------------------- to_bez_path of main.rs ----
MainToBezPathEnter ==
    /\ op = "main_to_bez_path" /\ pc = "call"
    /\ path' = << >>
    /\ idx' = 0
    /\ pc' = "loop"
    /\ UNCHANGED << window, args, output, a, b, i >>

MainToBezPathTile ==
    /\ op = "main_to_bez_path" /\ pc = "loop"
    /\ idx < Len(input)
    /\ ValidId(input[idx + 1].tile_id)
    /\ path' = main_add_to_path(rules[input[idx + 1].tile_id + 1].tile, path,
                                input[idx + 1].transform)
    /\ idx' = idx + 1
    /\ UNCHANGED << window, args, output, a, b, i, pc >>

MainToBezPathFault ==
    /\ op = "main_to_bez_path" /\ pc = "loop"
    /\ idx < Len(input)
    /\ ~ValidId(input[idx + 1].tile_id)
    /\ pc' = "fault"
    /\ UNCHANGED << window, args, output, a, b, i, idx, path >>

MainToBezPathReturn ==
    /\ op = "main_to_bez_path" /\ pc = "loop"
    /\ idx = Len(input)
    /\ pc' = "done"
    /\ UNCHANGED << window, args, output, a, b, i, idx, path >>

\* -------------------------------------------------- expand_0_levels ----
\* The seed list, then the call: expand_bound if a bound is given,
\* expand_levels otherwise, both with Some(DEFAULT_POLYGON_LIMIT).  The
\* callee runs as the actions above.
Expand0Levels ==
    /\ op = "expand_0_levels" /\ pc = "call"
    /\ input' = << Placement(1, AffineScale(initial_scale[1])) >>
    /\ max_tiles' = Some(DEFAULT_POLYGON_LIMIT)
    /\ IF bounds # None
       THEN op' = "expand_bound" /\ bounds' = bounds[1]
       ELSE op' = "expand_levels" /\ bounds' = bounds
    /\ UNCHANGED << window, rules, levels, prior, initial_scale, output,
                    a, b, i, idx, path, pc >>

\* ------------------------------------------------------------- Spec ----
Next ==
    \/ ExpandLevelsEnter
    \/ ExpandLevelsTile
    \/ ExpandLevelsFault
    \/ ExpandLevelsSwap
    \/ ExpandLevelsReturn
    \/ ExpandBoundEnter
    \/ ExpandBoundSkip
    \/ ExpandBoundTile
    \/ ExpandBoundFault
    \/ ExpandBoundSwap
    \/ ExpandBoundReturn
    \/ ToBezPathEnter
    \/ ToBezPathTile
    \/ ToBezPathFault
    \/ ToBezPathReturn
    \/ MainToBezPathEnter
    \/ MainToBezPathTile
    \/ MainToBezPathFault
    \/ MainToBezPathReturn
    \/ Expand0Levels

Spec == Init /\ [][Next]_vars

\* ----------------------------------------------------------- editor ----
\* The placement list of the rule under edit, and the corners of the tile
\* a placement shows.
Result == rules[current_tile + 1].result

Corners(placement) == rules[placement.tile_id + 1].tile.corners

PlacementIds == 0..(Len(Result) - 1)

CornerIds(j) == 0..(Len(Corners(Result[j + 1])) - 1)

\* Variant: a shift-click on another placement keeps the old selection's
\* corners.
click_point_keep(sel, j, c, shift) ==
    IF ~shift THEN Points(j, << c >>)
    ELSE IF sel.kind = "Points"
         THEN IF contains(sel.corners, c)
              THEN Points(j, SelectSeq(sel.corners, LAMBDA x : x = c))
              ELSE Points(j, Append(sel.corners, c))
         ELSE Points(j, << c >>)

\* display_shapes, a click on corner i of placement j.
click_point(sel, j, c, shift) ==
    IF ~shift THEN Points(j, << c >>)
    ELSE IF sel.kind = "Points" /\ sel.shape = j
         THEN IF contains(sel.corners, c)
              THEN Points(j, SelectSeq(sel.corners, LAMBDA x : x = c))
              ELSE Points(j, Append(sel.corners, c))
         ELSE Points(j, << c >>)

update_tile_selection(sel, tile, shift) ==
    IF ~shift THEN Shapes(<< tile >>)
    ELSE IF sel.kind = "Shapes"
         THEN IF contains(sel.shapes, tile)
              THEN LET indexes == SelectSeq(sel.shapes, LAMBDA x : x = tile)
                   IN  IF Len(indexes) > 0 THEN Shapes(indexes) ELSE NoSelection
              ELSE Shapes(Append(sel.shapes, tile))
         ELSE Shapes(<< tile >>)

is_selected(sel, tile) == sel.kind = "Shapes" /\ contains(sel.shapes, tile)

\* The points of the placements of a list, in the order of the list.
RECURSIVE PlacedCorners(_, _, _)
PlacedCorners(result, ids, k) ==
    IF k > Len(ids) THEN << >>
    ELSE LET pl == result[ids[k] + 1]
         IN  [ c \in 1..Len(Corners(pl)) |-> AffineApply(pl.transform, Corners(pl)[c]) ]
               \o PlacedCorners(result, ids, k + 1)

\* TilingStep::snap_targets: the geometry of the rule that is not
\* selected: the corners of the rule's own tile, then those of the
\* unselected placements in placement order.
snap_targets(result, shapes) ==
    LET all == [ k \in 1..Len(result) |-> k - 1 ]
    IN  rules[current_tile + 1].tile.corners
          \o PlacedCorners(result, SelectSeq(all, LAMBDA x : ~contains(shapes, x)), 1)

\* TilingStep::rule_points: the corners of the selected placements where
\* they are now, in selection order.
rule_points(result, shapes) == PlacedCorners(result, shapes, 1)

\* The search of the closest pair: targets in the outer loop, movable
\* points in the inner one; n counts the pairs visited so far.  best is
\* None or Some(<<target, movable, distance>>).
RECURSIVE best_pair_first(_, _, _, _)
best_pair_first(targets, movable, n, best) ==
    IF n > Len(targets) * Len(movable) THEN best
    ELSE LET t == targets[((n - 1) \div Len(movable)) + 1]
             f == movable[((n - 1) % Len(movable)) + 1]
             dis == length_squared(Sub(t, f))
         IN  IF WithinSnap(dis) /\ best = None
             THEN best_pair_first(targets, movable, n + 1, Some(<< t, f, dis >>))
             ELSE best_pair_first(targets, movable, n + 1, best)

RECURSIVE best_pair(_, _, _, _)
best_pair(targets, movable, n, best) ==
    IF n > Len(targets) * Len(movable) THEN best
    ELSE LET t == targets[((n - 1) \div Len(movable)) + 1]
             f == movable[((n - 1) % Len(movable)) + 1]
             dis == length_squared(Sub(t, f))
         IN  IF WithinSnap(dis) /\ (best = None \/ dis < best[1][3])
             THEN best_pair(targets, movable, n + 1, Some(<< t, f, dis >>))
             ELSE best_pair(targets, movable, n + 1, best)

\* The position in the selection of placement j (the last one, were it
\* there twice: the loops assign in selection order).
PositionIn(shapes, j) ==
    CHOOSE k \in 1..Len(shapes) :
        shapes[k] = j /\ \A m \in (k + 1)..Len(shapes) : shapes[m] # j

\* Variant: the movement is added to the transform of the previous frame.
apply_drag_relative(result, shapes, snapshots, movement_draw) ==
    [ k \in 1..Len(result) |->
        IF contains(shapes, k - 1)
        THEN [ result[k] EXCEPT !.transform = then_translate(@, movement_draw) ]
        ELSE result[k] ]

\* for (i, shape) in shapes: result[shape].transform =
\*     drag_transforms[i].then_translate(movement_draw)
apply_drag(result, shapes, snapshots, movement_draw) ==
    [ k \in 1..Len(result) |->
        IF contains(shapes, k - 1)
        THEN [ result[k] EXCEPT !.transform =
                 then_translate(snapshots[PositionIn(shapes, k - 1)], movement_draw) ]
        ELSE result[k] ]

\* Variant: the snap movement is applied to every placement of the rule.
apply_snap_all(result, shapes, movement) ==
    [ k \in 1..Len(result) |->
        [ result[k] EXCEPT !.transform = then_translate(@, movement) ] ]

\* for shape in shapes: result[shape].transform =
\*     result[shape].transform.then_translate(movement)
apply_snap(result, shapes, movement) ==
    [ k \in 1..Len(result) |->
        IF contains(shapes, k - 1)
        THEN [ result[k] EXCEPT !.transform = then_translate(@, movement) ]
        ELSE result[k] ]

mouse_movement(start, p2) == Sub(p2, start)

movement_draw(start, p2) == Sub(InverseView(p2), InverseView(start))

\* Variant: the flag of the earlier frames is not consulted.
Activated_now(activated, start, p2) ==
    length_squared(mouse_movement(start, p2)) > DRAG_START * DRAG_START

\* drag_activated || mouse_movement.length() > DRAG_START
Activated(activated, start, p2) ==
    activated \/ length_squared(mouse_movement(start, p2)) > DRAG_START * DRAG_START

\* Variant: the shift modifier is not consulted.
Snapping_noshift(result, shapes, shift) ==
    IF snap
    THEN best_pair(snap_targets(result, shapes), rule_points(result, shapes), 1, None)
    ELSE None

Snapping(result, shapes, shift) ==
    IF snap /\ ~shift
    THEN best_pair(snap_targets(result, shapes), rule_points(result, shapes), 1, None)
    ELSE None

\* The `if resp.dragged() && self.drag_transforms.len() > 0` block of
\* display_shapes, given the state the drag-start block left: the new
\* placement list and activation flag.
dragged_noflag(result, sel, snapshots, start, activated, p2, shift) ==
    IF Len(snapshots) > 0 /\ sel.kind = "Shapes"
    THEN LET moved == apply_drag(result, sel.shapes, snapshots, movement_draw(start, p2))
             best == Snapping(moved, sel.shapes, shift)
         IN  [ result |-> IF best # None
                          THEN apply_snap(moved, sel.shapes, Sub(best[1][1], best[1][2]))
                          ELSE moved,
               activated |-> Activated(activated, start, p2) ]
    ELSE [ result |-> result, activated |-> activated ]

dragged(result, sel, snapshots, start, activated, p2, shift) ==
    IF Len(snapshots) > 0 /\ sel.kind = "Shapes"
    THEN LET act == Activated(activated, start, p2)
             moved == IF act
                      THEN apply_drag(result, sel.shapes, snapshots,
                                      movement_draw(start, p2))
                      ELSE result
             best == Snapping(moved, sel.shapes, shift)
         IN  [ result |-> IF best # None
                          THEN apply_snap(moved, sel.shapes, Sub(best[1][1], best[1][2]))
                          ELSE moved,
               activated |-> act ]
    ELSE [ result |-> result, activated |-> activated ]

\* One action per frame of the editor window; the frame reports one event.
InitEditor ==
    /\ rules = EDIT_RULES
    /\ op = "editor"
    /\ initial_scale = None
    /\ input = << >>
    /\ levels = 0
    /\ max_tiles = None
    /\ bounds = WIDE_BOUND
    /\ prior = << >>
    /\ output = << >>
    /\ InitLocals
    /\ InitWindow

\* point_resp.clicked() for corner c of placement j.
FrameClickPoint ==
    /\ held = None
    /\ \E j \in PlacementIds, shift \in BOOLEAN :
         \E c \in CornerIds(j) :
            /\ selection' = click_point(selection, j, c, shift)
            /\ frame' = Event("click_point", j, c, shift, << 0, 0 >>)
    /\ UNCHANGED << rules, engine, current_tile, drag_transforms, drag_start_p,
                    drag_activated, snap, held, gestures >>

\* resp.clicked() for the silhouette of placement j.
FrameClickShape ==
    /\ held = None
    /\ \E j \in PlacementIds, shift \in BOOLEAN :
         /\ selection' = update_tile_selection(selection, j, shift)
         /\ frame' = Event("click_shape", j, 0, shift, << 0, 0 >>)
    /\ UNCHANGED << rules, engine, current_tile, drag_transforms, drag_start_p,
                    drag_activated, snap, held, gestures >>

\* response.clicked() && !clicked_something.
FrameClickBackground ==
    /\ held = None
    /\ selection' = NoSelection
    /\ frame' = Event("click_background", 0, 0, FALSE, << 0, 0 >>)
    /\ UNCHANGED << rules, engine, current_tile, drag_transforms, drag_start_p,
                    drag_activated, snap, held, gestures >>

\* The Snap checkbox, enabled while shift is not held.
FrameToggleSnap ==
    /\ held = None
    /\ snap' = ~snap
    /\ frame' = Event("toggle_snap", 0, 0, FALSE, << 0, 0 >>)
    /\ UNCHANGED << rules, engine, current_tile, selection, drag_transforms,
                    drag_start_p, drag_activated, held, gestures >>

\* Variant: the snapshots are taken in placement order and the activation
\* flag of the previous gesture is kept.
FrameDragStart_stale ==
    /\ held = None
    /\ gestures < MaxGestures
    /\ \E j \in PlacementIds, shift \in BOOLEAN, p \in DragStarts :
         LET maybe_drag == is_selected(selection, j) \/ ~shift
             sel == IF ~is_selected(selection, j) /\ ~shift
                    THEN Shapes(<< j >>) ELSE selection
             all == [ k \in 1..Len(Result) |-> k - 1 ]
             chosen == SelectSeq(all, LAMBDA x : contains(sel.shapes, x))
             snapshots == IF maybe_drag
                          THEN [ k \in 1..Len(chosen) |-> Result[chosen[k] + 1].transform ]
                          ELSE << >>
             start == IF maybe_drag THEN p ELSE drag_start_p
             after == dragged(Result, sel, snapshots, start, drag_activated, p, shift)
         IN  /\ selection' = sel
             /\ drag_transforms' = snapshots
             /\ drag_start_p' = start
             /\ drag_activated' = after.activated
             /\ rules' = [ rules EXCEPT ![current_tile + 1].result = after.result ]
             /\ held' = Some(j)
             /\ frame' = Event("drag_started", j, 0, shift, p)
    /\ gestures' = gestures + 1
    /\ UNCHANGED << engine, current_tile, snap >>

\* resp.drag_started() for placement j, the pointer at p; the response is
\* dragged in the same frame.
FrameDragStart ==
    /\ held = None
    /\ gestures < MaxGestures
    /\ \E j \in PlacementIds, shift \in BOOLEAN, p \in DragStarts :
         LET maybe_drag == is_selected(selection, j) \/ ~shift
             sel == IF ~is_selected(selection, j) /\ ~shift
                    THEN Shapes(<< j >>) ELSE selection
             snapshots == IF maybe_drag
                          THEN [ k \in 1..Len(sel.shapes) |->
                                   Result[sel.shapes[k] + 1].transform ]
                          ELSE << >>
             start == IF maybe_drag THEN p ELSE drag_start_p
             activated == IF maybe_drag THEN FALSE ELSE drag_activated
             after == dragged(Result, sel, snapshots, start, activated, p, shift)
         IN  /\ selection' = sel
             /\ drag_transforms' = snapshots
             /\ drag_start_p' = start
             /\ drag_activated' = after.activated
             /\ rules' = [ rules EXCEPT ![current_tile + 1].result = after.result ]
             /\ held' = Some(j)
             /\ frame' = Event("drag_started", j, 0, shift, p)
    /\ gestures' = gestures + 1
    /\ UNCHANGED << engine, current_tile, snap >>

\* resp.dragged() for the placement the pointer is held on, now at p2.
FrameDragged ==
    /\ held # None
    /\ \E shift \in BOOLEAN, p2 \in PointerPositions :
         LET after == dragged(Result, selection, drag_transforms, drag_start_p,
                              drag_activated, p2, shift)
         IN  /\ drag_activated' = after.activated
             /\ rules' = [ rules EXCEPT ![current_tile + 1].result = after.result ]
             /\ frame' = Event("dragged", held[1], 0, shift, p2)
    /\ UNCHANGED << engine, current_tile, selection, drag_transforms,
                    drag_start_p, snap, held, gestures >>

\* The pointer is released: the frame reports nothing.
FrameRelease ==
    /\ held # None
    /\ held' = None
    /\ frame' = Event("released", held[1], 0, FALSE, << 0, 0 >>)
    /\ UNCHANGED << rules, engine, current_tile, selection, drag_transforms,
                    drag_start_p, drag_activated, snap, gestures >>

EditorNext ==
    \/ FrameClickPoint
    \/ FrameClickShape
    \/ FrameClickBackground
    \/ FrameToggleSnap
    \/ FrameDragStart
    \/ FrameDragged
    \/ FrameRelease

EditorSpec == InitEditor /\ [][EditorNext]_vars

\* ----------------------------------------------------------- window ----
\* tiling_editor_window: the rule selector, the index check, and frames in
\* which the painter reports a click of its own next to the event of a
\* corner or a placement.
\* if !(0..=value.rules.len()).contains(&self.current_tile) { return; }
CheckPasses == current_tile <= Len(rules)

\* value.rules[self.current_tile] is an element.
InRange == current_tile < Len(rules)

\* The selection the drag-start block leaves (lines 220-227).
DragSelection(sel, j, shift) ==
    IF ~is_selected(sel, j) /\ ~shift THEN Shapes(<< j >>) ELSE sel

\* The window state is kept in the GUI memory under a fixed id; the
\* TilingStep is whatever the host shows the widget for: a rule set of two
\* rules, or TilingStep::new() with the default current_tile 0 or with a
\* current_tile left from frames on another TilingStep.
InitWindowSpec ==
    /\ op = "editor"
    /\ initial_scale = None
    /\ input = << >>
    /\ levels = 0
    /\ max_tiles = None
    /\ bounds = WIDE_BOUND
    /\ prior = << >>
    /\ output = << >>
    /\ InitLocals
    /\ selection = NoSelection
    /\ drag_transforms = << >>
    /\ drag_start_p = << 0, 0 >>
    /\ drag_activated = FALSE
    /\ snap = TRUE
    /\ frame = NoEvent
    /\ held = None
    /\ gestures = 0
    /\ \/ rules = WINDOW_RULES /\ current_tile = 0
       \/ rules = NEW_STEP /\ current_tile \in 0..1

\* The check fails: the closure returns before anything of the rule is
\* drawn.
FrameNotDrawn ==
    /\ pc = "call"
    /\ ~CheckPasses
    /\ frame' = Event("not_drawn", 0, 0, FALSE, << 0, 0 >>)
    /\ UNCHANGED << rules, engine, current_tile, selection, drag_transforms,
                    drag_start_p, drag_activated, snap, held, gestures >>

\* The check passes and value.rules[self.current_tile] is no element: the
\* index panics.
FrameFault ==
    /\ pc = "call"
    /\ CheckPasses /\ ~InRange
    /\ pc' = "fault"
    /\ frame' = Event("fault", 0, 0, FALSE, << 0, 0 >>)
    /\ UNCHANGED << rules, op, input, levels, max_tiles, bounds, prior,
                    initial_scale, output, a, b, i, idx, path,
                    current_tile, selection, drag_transforms,
                    drag_start_p, drag_activated, snap, held, gestures >>

\* Variant: the selection is kept when the rule changes.
FrameSelectRule_keep ==
    /\ pc = "call" /\ held = None
    /\ \E t \in 0..(Len(rules) - 1) :
         /\ t # current_tile
         /\ current_tile' = t
         /\ frame' = Event("select_rule", t, 0, FALSE, << 0, 0 >>)
    /\ UNCHANGED << rules, engine, selection, drag_transforms, drag_start_p,
                    drag_activated, snap, held, gestures >>

\* The "Tile" ComboBox: selectable_value sets current_tile to another rule,
\* the response reports the change and the selection is reset; the rule
\* is then drawn with no event.
FrameSelectRule ==
    /\ pc = "call" /\ held = None
    /\ \E t \in 0..(Len(rules) - 1) :
         /\ t # current_tile
         /\ current_tile' = t
         /\ frame' = Event("select_rule", t, 0, FALSE, << 0, 0 >>)
    /\ selection' = NoSelection
    /\ UNCHANGED << rules, engine, drag_transforms, drag_start_p,
                    drag_activated, snap, held, gestures >>

\* point_resp.clicked() and response.clicked() in one frame:
\* clicked_something is set.
FrameClickPointBackground ==
    /\ held = None
    /\ \E j \in PlacementIds, shift \in BOOLEAN :
         \E c \in CornerIds(j) :
            /\ selection' = click_point(selection, j, c, shift)
            /\ frame' = Event("click_point_background", j, c, shift, << 0, 0 >>)
    /\ UNCHANGED << rules, engine, current_tile, drag_transforms, drag_start_p,
                    drag_activated, snap, held, gestures >>

\* resp.clicked() and response.clicked() in one frame: clicked_something
\* is set.
FrameClickShapeBackground ==
    /\ held = None
    /\ \E j \in PlacementIds, shift \in BOOLEAN :
         /\ selection' = update_tile_selection(selection, j, shift)
         /\ frame' = Event("click_shape_background", j, 0, shift, << 0, 0 >>)
    /\ UNCHANGED << rules, engine, current_tile, drag_transforms, drag_start_p,
                    drag_activated, snap, held, gestures >>

\* resp.drag_started() and response.clicked() in one frame (the pointer
\* went down on placement j and up again within the frame): the drag-start
\* and dragged blocks run, clicked_something stays false and the test at
\* the end of display_shapes resets the selection.
FrameDragStartBackground ==
    /\ held = None
    /\ gestures < MaxGestures
    /\ \E j \in PlacementIds, shift \in BOOLEAN, p \in DragStarts :
         LET maybe_drag == is_selected(selection, j) \/ ~shift
             sel == DragSelection(selection, j, shift)
             snapshots == IF maybe_drag
                          THEN [ k \in 1..Len(sel.shapes) |->
                                   Result[sel.shapes[k] + 1].transform ]
                          ELSE << >>
             start == IF maybe_drag THEN p ELSE drag_start_p
             activated == IF maybe_drag THEN FALSE ELSE drag_activated
             after == dragged(Result, sel, snapshots, start, activated, p, shift)
         IN  /\ selection' = NoSelection
             /\ drag_transforms' = snapshots
             /\ drag_start_p' = start
             /\ drag_activated' = after.activated
             /\ rules' = [ rules EXCEPT ![current_tile + 1].result = after.result ]
             /\ frame' = Event("drag_started_background", j, 0, shift, p)
    /\ gestures' = gestures + 1
    /\ UNCHANGED << engine, current_tile, snap, held >>

\* A frame of the window: nothing is drawn, the index faults, or the rule
\* is drawn and display_shapes handles the event of the frame.  The window
\* frames are explored with one gesture less than the editor frames.
WindowNext ==
    \/ FrameNotDrawn
    \/ FrameFault
    \/ pc = "call" /\ InRange /\ FrameSelectRule
    \/ pc = "call" /\ InRange /\ FrameClickPoint
    \/ pc = "call" /\ InRange /\ FrameClickShape
    \/ pc = "call" /\ InRange /\ FrameClickBackground
    \/ pc = "call" /\ InRange /\ FrameToggleSnap
    \/ pc = "call" /\ InRange /\ gestures + 1 < MaxGestures /\ FrameDragStart
    \/ pc = "call" /\ InRange /\ FrameDragged
    \/ pc = "call" /\ InRange /\ FrameRelease
    \/ pc = "call" /\ InRange /\ FrameClickPointBackground
    \/ pc = "call" /\ InRange /\ FrameClickShapeBackground
    \/ pc = "call" /\ InRange /\ gestures + 1 < MaxGestures
          /\ FrameDragStartBackground

WindowSpec == InitWindowSpec /\ [][WindowNext]_vars

\* ------------------------------------------------ reference notions ----
\* Rule sets and inputs with referential integrity.
ValidRules ==
    \A r \in 1..Len(rules) : \A k \in 1..Len(rules[r].result) :
        ValidId(rules[r].result[k].tile_id)

ValidInput == \A k \in 1..Len(input) : ValidId(input[k].tile_id)

\* The part of the output vector the call appended.
Appended == SubSeq(output, Len(prior) + 1, Len(output))

Returned(o) == op = o /\ pc = "done"

Fanout(id) == Len(rules[id + 1].result)

\* The k-th child (1-based, rule order) of placement p.
ChildOf(p, k) ==
    LET c == rules[p.tile_id + 1].result[k]
    IN  Placement(c.tile_id, AffineMul(p.transform, c.transform))

ChildrenOf(p) == [ k \in 1..Fanout(p.tile_id) |-> ChildOf(p, k) ]

\* Children of gen[from..to], parent order.
RECURSIVE ConcatChildren(_, _, _)
ConcatChildren(gen, from, to) ==
    IF from > to THEN << >>
    ELSE ChildrenOf(gen[from]) \o ConcatChildren(gen, from + 1, to)

RECURSIVE Generation(_, _)
Generation(inp, n) ==
    IF n = 0 THEN inp
    ELSE LET g == Generation(inp, n - 1) IN ConcatChildren(g, 1, Len(g))

\* No generation of the run is large enough for the limit test to fire.
NoLimitReached ==
    \/ max_tiles = None
    \/ \A k \in 1..levels : Len(Generation(input, k)) <= max_tiles[1]

\* ------------------------------------------------------------ C1 ----
\* C1: for a rule set and input with valid tile ids and no limit reached,
\* expand_levels returns normally and appends exactly the final generation
\* Generation(input, levels), generation k+1 being the concatenation in
\* parent order of the children (rule order) of generation k; what was in
\* the output vector stays in front; with levels = 0 the appended part is
\* the input itself.
C1_FinalGenerationOnly ==
    (op = "expand_levels" /\ ValidRules /\ ValidInput)
        => /\ pc # "fault"
           /\ (pc = "done" /\ NoLimitReached)
                => /\ SubSeq(output, 1, Len(prior)) = prior
                   /\ Appended = Generation(input, levels)
                   /\ levels = 0 => Appended = input

C1_Witness ==
    /\ Returned("expand_levels") /\ rules = TWO_TILE /\ max_tiles = None
    /\ levels = 2 /\ Len(input) = 2 /\ input[1].tile_id # input[2].tile_id
    /\ prior # << >>
    /\ Len(Appended) > Len(Generation(input, 1))

\* ------------------------------------------------------------ C2 ----
\* Position (1-based) in generation 2 of the grandchild g of child c of the
\* parent at position pi of the input.
RECURSIVE FanoutSum(_, _, _)
FanoutSum(gen, from, to) ==
    IF from > to THEN 0
    ELSE Fanout(gen[from].tile_id) + FanoutSum(gen, from + 1, to)

GrandchildPos(pi, c, g) ==
    LET g1 == Generation(input, 1)
        cpos == FanoutSum(input, 1, pi - 1) + c
    IN  FanoutSum(g1, 1, cpos - 1) + g

\* C2: after two generations the placement produced from parent P through
\* child C of P's rule and grandchild G of C's rule has G's tile id and the
\* transform P * (C * G): the grandchild's local transform is applied
\* first, the parent's last.
C2_CompositionOrder ==
    (Returned("expand_levels") /\ levels = 2 /\ ValidRules /\ ValidInput
       /\ NoLimitReached)
        => \A pi \in 1..Len(input) :
             LET P == input[pi]
                 pr == rules[P.tile_id + 1].result
             IN  \A c \in 1..Len(pr) :
                   LET C == pr[c]
                       cr == rules[C.tile_id + 1].result
                   IN  \A g \in 1..Len(cr) :
                         LET G == cr[g]
                         IN  Appended[GrandchildPos(pi, c, g)] =
                               Placement(G.tile_id,
                                         AffineMul(P.transform,
                                                   AffineMul(C.transform, G.transform)))

\* A run where the order of composition shows: some grandchild's transform
\* differs from the product taken in the opposite order.
C2_Witness ==
    /\ Returned("expand_levels") /\ levels = 2 /\ rules = TWO_TILE
    /\ max_tiles = None /\ Len(input) = 2
    /\ \E pi \in 1..Len(input) :
         LET P == input[pi]
             pr == rules[P.tile_id + 1].result
         IN  \E c \in 1..Len(pr) : \E g \in 1..Fanout(pr[c].tile_id) :
               LET C == pr[c]
                   G == rules[C.tile_id + 1].result[g]
               IN  /\ Appended[GrandchildPos(pi, c, g)].transform
                        # AffineMul(G.transform, AffineMul(C.transform, P.transform))
                   /\ Appended[GrandchildPos(pi, c, g)].transform
                        # AffineMul(C.transform, AffineMul(P.transform, G.transform))

\* ------------------------------------------------------------ C3 ----
\* Number of placements of every tile type, generation by generation,
\* computed from the tile ids of the rules alone (no transform involved).
CountIn(seq, t) == Cardinality({ k \in 1..Len(seq) : seq[k].tile_id = t })

RECURSIVE TypeCount(_, _)
RECURSIVE TypeCountFrom(_, _, _)
TypeCount(n, t) ==
    IF n = 0 THEN CountIn(input, t)
    ELSE TypeCountFrom(n, t, 0)

TypeCountFrom(n, t, s) ==
    IF s >= Len(rules) THEN 0
    ELSE TypeCount(n - 1, s) * CountIn(rules[s + 1].result, t)
           + TypeCountFrom(n, t, s + 1)

RECURSIVE TotalCount(_, _)
TotalCount(n, t) ==
    IF t >= Len(rules) THEN 0 ELSE TypeCount(n, t) + TotalCount(n, t + 1)

RECURSIVE Pow(_, _)
Pow(f, n) == IF n = 0 THEN 1 ELSE f * Pow(f, n - 1)

UniformFanout(f) == \A r \in 1..Len(rules) : Len(rules[r].result) = f

\* C3: without a limit the number of placements follows from fan-out
\* alone: the generation being built holds the sum of the fan-outs of the
\* parents expanded so far (all of generation k once the pass ends), the
\* returned count is the one the per-type fan-out recurrence gives, and
\* with one root and the same fan-out f for every rule it is f^levels.
C3_CountByFanout ==
    (op = "expand_levels" /\ ValidRules /\ ValidInput /\ NoLimitReached)
        => /\ (pc = "loop" /\ i < levels)
                => /\ Len(a) = TotalCount(i, 0)
                   /\ Len(b) = FanoutSum(a, 1, idx)
           /\ pc = "done" => Len(Appended) = TotalCount(levels, 0)
           /\ (pc = "done" /\ Len(input) = 1 /\ Len(rules) > 0
                 /\ UniformFanout(Len(rules[1].result)))
                => Len(Appended) = Pow(Len(rules[1].result), levels)

C3_Witness ==
    /\ Returned("expand_levels") /\ rules = TWO_TILE /\ max_tiles = None
    /\ levels = 2 /\ Len(input) = 2
    /\ input[1].tile_id = 0 /\ input[2].tile_id = 1
    /\ Len(Appended) = 12

\* ------------------------------------------------------------ C4 ----
Quarter == Unit \div 4

\* C4: for the square-grid rule set, two levels from a single root
\* placement of the square (a uniform scale s followed by a translation)
\* yield exactly 16 placements of the square, each of scale s/4, whose
\* offsets are the 16 pairwise distinct points
\* {0,1/4,1/2,3/4} x {0,1/4,1/2,3/4} of the root's unit square.
C4_SquareGridSixteen ==
    (Returned("expand_levels") /\ rules = SQUARE_GRID /\ levels = 2
       /\ Len(input) = 1 /\ input[1].tile_id = 0 /\ NoLimitReached)
        => LET R == input[1].transform
               sc == FMul(R[1], Quarter)
               Cell(ox, oy) ==
                   Placement(0, << sc, 0, 0, sc,
                                   R[5] + FMul(R[1], ox * Quarter),
                                   R[6] + FMul(R[1], oy * Quarter) >>)
           IN  /\ Len(Appended) = 16
               /\ { Appended[k] : k \in 1..16 }
                     = { Cell(ox, oy) : ox \in 0..3, oy \in 0..3 }
               /\ \A j, k \in 1..16 : j # k => Appended[j] # Appended[k]

C4_Witness ==
    /\ Returned("expand_levels") /\ rules = SQUARE_GRID /\ levels = 2
    /\ input = << Placement(0, IDENTITY) >> /\ max_tiles = None
    /\ Len(Appended) = 16
    /\ Appended[16].transform = << Quarter, 0, 0, Quarter, 3 * Quarter, 3 * Quarter >>

\* ------------------------------------------------------ C5 and C6 ----
\* Two closed rectangles have a point in common.
RectsMeet(r, o) == r[1] <= o[3] /\ o[1] <= r[3] /\ r[2] <= o[4] /\ o[2] <= r[4]

\* The unbounded generations with, for every placement, whether all of its
\* ancestors passed the test: geometric (the estimated rectangle and the
\* bound have a point in common) or the one of the code (Culled is false).
Passes(pl, geometric) ==
    IF geometric THEN RectsMeet(estimate_bounds(pl), bounds) ELSE ~Culled(pl)

RECURSIVE FlaggedChildren(_, _, _)
FlaggedChildren(gen, from, geometric) ==
    IF from > Len(gen) THEN << >>
    ELSE LET parent == gen[from]
             keep == parent.alive /\ Passes(parent.pl, geometric)
         IN  [ k \in 1..Fanout(parent.pl.tile_id) |->
                 [pl |-> ChildOf(parent.pl, k), alive |-> keep] ]
               \o FlaggedChildren(gen, from + 1, geometric)

RECURSIVE FlaggedGeneration(_, _)
FlaggedGeneration(n, geometric) ==
    IF n = 0 THEN [ k \in 1..Len(input) |-> [pl |-> input[k], alive |-> TRUE] ]
    ELSE FlaggedChildren(FlaggedGeneration(n - 1, geometric), 1, geometric)

IsAlive(x) == x.alive

Survivors(n, geometric) ==
    LET kept == SelectSeq(FlaggedGeneration(n, geometric), IsAlive)
    IN  [ k \in 1..Len(kept) |-> kept[k].pl ]

\* C5: with no limit reached, what expand_bound returns is the unbounded
\* generation of the same depth restricted, in the same relative order, to
\* the placements all of whose ancestors (generations 0..levels-1) have an
\* estimated rectangle that intersects the bound.
C5_BoundedIsAncestorFilter ==
    (Returned("expand_bound") /\ ValidRules /\ ValidInput /\ NoLimitReached)
        => Appended = Survivors(levels, TRUE)

\* The same relation with the test the code applies (the intersection with
\* the bound has a non-zero area) in place of the geometric one.
BoundedIsCullTestFilter ==
    (Returned("expand_bound") /\ ValidRules /\ ValidInput /\ NoLimitReached)
        => Appended = Survivors(levels, FALSE)

AtBoundTile ==
    /\ op = "expand_bound" /\ pc = "loop"
    /\ i < levels /\ idx < Len(a)
    /\ ValidId(a[idx + 1].tile_id)

\* C6: in expand_bound a placement is skipped exactly when its estimated
\* rectangle has no point in common with the bound, and expanded exactly
\* when it has one, whatever its tile (a tile without corners included).
C6_SkippedIffDisjoint ==
    [][ AtBoundTile
          => /\ ExpandBoundSkip <=> ~RectsMeet(estimate_bounds(a[idx + 1]), bounds)
             /\ ExpandBoundTile <=> RectsMeet(estimate_bounds(a[idx + 1]), bounds) ]_vars

\* What the code does: skipped exactly when the intersection of the
\* estimated rectangle with the bound has area zero.
SkippedIffZeroArea ==
    [][ AtBoundTile
          => LET r == RectIntersect(estimate_bounds(a[idx + 1]), bounds)
             IN  /\ ExpandBoundSkip <=> RectWidth(r) = 0 \/ RectHeight(r) = 0
                 /\ ExpandBoundTile <=> RectWidth(r) > 0 /\ RectHeight(r) > 0 ]_vars

\* The tile without corners inside the bound: it is skipped.
CornerlessTileSkipped ==
    /\ AtBoundTile /\ rules = PLACEHOLDER /\ bounds = WIDE_BOUND
    /\ a[idx + 1] = Placement(0, IDENTITY)
    /\ RectsMeet(estimate_bounds(a[idx + 1]), bounds)
    /\ Culled(a[idx + 1])

\* ------------------------------------------------------ C7 and C8 ----
Expanding == op \in { "expand_levels", "expand_bound" }

RECURSIVE MaxFanoutFrom(_)
MaxFanoutFrom(r) ==
    IF r > Len(rules) THEN 0
    ELSE FMax(Len(rules[r].result), MaxFanoutFrom(r + 1))

MaxFanout == MaxFanoutFrom(1)

\* C7 (as claimed): with max_tiles = Some(m) no generation built by
\* expand_levels or expand_bound (generation 1 and later), and hence the
\* list returned after one or more levels, contains more than m
\* placements.
C7_LimitIsMaximum ==
    (Expanding /\ max_tiles # None)
        => /\ (pc = "loop" /\ i >= 1) => Len(a) <= max_tiles[1]
           /\ (pc = "done" /\ levels >= 1) => Len(Appended) <= max_tiles[1]

\* C7 (amended): m is the threshold above which a generation stops growing:
\* the generation under construction holds at most m placements whenever a
\* further placement is about to be expanded, so a built generation
\* (levels >= 1), and the returned list, holds at most m plus the largest
\* fan-out of a rule; with levels = 0 the input is returned whatever its
\* length.
C7_LimitOvershootBounded ==
    (Expanding /\ max_tiles # None)
        => /\ pc = "loop" => Len(b) <= max_tiles[1]
           /\ (pc = "loop" /\ i >= 1) => Len(a) <= max_tiles[1] + MaxFanout
           /\ (pc = "done" /\ levels >= 1) => Len(Appended) <= max_tiles[1] + MaxFanout
           /\ (pc = "done" /\ levels = 0) => Appended = input

\* A returned generation larger than the limit.
C7_Witness ==
    /\ Returned("expand_levels") /\ rules = TWO_TILE /\ levels = 2
    /\ max_tiles = Some(2) /\ Len(input) = 2
    /\ Len(Appended) > 2

\* The placements the call expands: all of them, or in expand_bound those
\* the cull test lets through.
Expandable(p) == op = "expand_levels" \/ ~Culled(p)

RECURSIVE KeptFanoutSum(_, _, _)
KeptFanoutSum(gen, from, to) ==
    IF from > to THEN 0
    ELSE (IF Expandable(gen[from]) THEN Fanout(gen[from].tile_id) ELSE 0)
           + KeptFanoutSum(gen, from + 1, to)

RECURSIVE KeptChildren(_, _, _)
KeptChildren(gen, from, to) ==
    IF from > to THEN << >>
    ELSE (IF Expandable(gen[from]) THEN ChildrenOf(gen[from]) ELSE << >>)
           \o KeptChildren(gen, from + 1, to)

\* The halting point in gen: the first parent whose children bring the
\* count above the limit; the last parent when there is none.
HaltIndex(gen) ==
    LET over == { h \in 1..Len(gen) :
                    max_tiles # None /\ KeptFanoutSum(gen, 1, h) > max_tiles[1] }
    IN  IF over = { } THEN Len(gen)
        ELSE CHOOSE h \in over : \A k \in over : h <= k

RECURSIVE TruncGeneration(_)
TruncGeneration(n) ==
    IF n = 0 THEN input
    ELSE LET g == TruncGeneration(n - 1) IN KeptChildren(g, 1, HaltIndex(g))

IsPrefix(s, t) == Len(s) <= Len(t) /\ s = SubSeq(t, 1, Len(s))

\* C8: reaching the limit is no error.  With valid tile ids the call never
\* faults and returns; every generation (seen in a when a pass starts) is
\* the children of the parents up to the halting point of the generation
\* before and of no parent behind it, hence a prefix of the generation the
\* limit-free pass would build; a pass that runs to its end leaves in b the
\* children of all its parents; the levels that remain go on from the
\* truncated generation, and the result is the last of these generations.
C8_TruncationIsSilent ==
    (Expanding /\ ValidRules /\ ValidInput)
        => /\ pc # "fault"
           /\ pc = "loop"
                => /\ i <= levels
                   /\ (i < levels /\ idx = Len(a)) => b = KeptChildren(a, 1, idx)
                   /\ (idx = 0 /\ i = 0) => a = input
                   /\ (idx = 0 /\ i >= 1)
                        => LET g == TruncGeneration(i - 1)
                               h == HaltIndex(g)
                           IN  /\ a = KeptChildren(g, 1, h)
                               /\ h < Len(g)
                                    => /\ Len(a) > max_tiles[1]
                                       /\ IsPrefix(a, KeptChildren(g, 1, Len(g)))
           /\ pc = "done" => Appended = TruncGeneration(levels)

\* A run cut at a halting point before the end of a generation that went
\* on for the remaining levels.
C8_Witness ==
    /\ Returned("expand_levels") /\ rules = TWO_TILE /\ levels = 2
    /\ max_tiles = Some(2) /\ Len(input) = 2
    /\ input[1].tile_id = 1
    /\ HaltIndex(input) < Len(input)
    /\ HaltIndex(TruncGeneration(1)) < Len(TruncGeneration(1))
    /\ Appended # Generation(input, 2)
    /\ Len(Appended) > 2

\* ------------------------------------------------------------ C9 ----
\* C9: a placement whose tile_id is no index into rules, present in the
\* input of expand_levels, expand_bound or to_bez_path, makes the call end
\* in a fault: the call never returns a result.
C9_InvalidIdFaults ==
    ((Expanding \/ op = "to_bez_path") /\ ~ValidInput) => pc # "done"

\* What the code does: the fault comes with the first look-up of such a
\* placement.  to_bez_path looks every placement up; expansion looks up
\* the placements it reaches, none with levels = 0 and none behind a
\* halting point.
InvalidIdFaultsWhenLookedUp ==
    /\ (op = "to_bez_path" /\ ~ValidInput) => pc # "done"
    /\ (Expanding /\ ~ValidInput /\ levels >= 1 /\ max_tiles = None) => pc # "done"
    /\ (Expanding /\ levels = 0 /\ pc = "done") => Appended = input

\* ----------------------------------------------------------- C10 ----
HasCorners(p) == Len(rules[p.tile_id + 1].tile.corners) > 0

IsMoveTo(e) == e.el = "MoveTo"

IsClosePath(e) == e.el = "ClosePath"

\* The placements of the input that refer to a tile with corners, in order.
Outlined == SelectSeq(input, HasCorners)

\* C10: to_bez_path emits one closed loop for every input placement whose
\* tile has a corner and nothing for the others, in the order of the input:
\* the path is a succession of loops (a MoveTo, LineTo's, a ClosePath),
\* there are as many of them as placements with corners, duplicates
\* included, and the k-th loop starts at the first transformed corner of
\* the k-th such placement.
C10_OneLoopPerPlacement ==
    (Returned("to_bez_path") /\ ValidInput)
        => LET starts == SelectSeq(path, IsMoveTo)
               closes == SelectSeq(path, IsClosePath)
           IN  /\ Len(starts) = Len(Outlined)
               /\ Len(closes) = Len(Outlined)
               /\ \A k \in 1..Len(Outlined) :
                    starts[k].p =
                      AffineApply(Outlined[k].transform,
                                  rules[Outlined[k].tile_id + 1].tile.corners[1])
               /\ \A k \in 1..Len(path) :
                    /\ k = 1 => IsMoveTo(path[k])
                    /\ IsClosePath(path[k])
                         => k = Len(path) \/ IsMoveTo(path[k + 1])
                    /\ ~IsClosePath(path[k])
                         => /\ k < Len(path)
                            /\ path[k + 1].el \in { "LineTo", "ClosePath" }

\* Two loops of different tiles in input order, the second placement not
\* the first one.
C10_Witness ==
    /\ Returned("to_bez_path") /\ rules = TWO_TILE /\ Len(input) = 2
    /\ input[1].tile_id = 1 /\ input[2].tile_id = 0
    /\ input[1].transform # input[2].transform
    /\ Len(path) = 9
    /\ IsMoveTo(path[6])
    /\ path[6].p = AffineApply(input[2].transform, Pt(0, 0))

\* A placement of the tile without corners leaves no trace in the path.
CornerlessTileEmitsNothing ==
    /\ Returned("to_bez_path") /\ rules = PLACEHOLDER /\ Len(input) = 2
    /\ input[1].tile_id = 0 /\ input[2].tile_id = 1
    /\ path = << MoveTo(AffineApply(input[2].transform, Pt(1, 1))), ClosePath >>

\* ----------------------------------------------------------- C11 ----
\* The loop of one placement as the specification words it: a MoveTo to
\* the first transformed corner, a LineTo to each of the n-1 subsequent
\* corners in order, a ClosePath.
LoopOf(p) ==
    LET corners == rules[p.tile_id + 1].tile.corners
    IN  IF Len(corners) = 0 THEN << >>
        ELSE << MoveTo(AffineApply(p.transform, corners[1])) >>
               \o [ k \in 1..(Len(corners) - 1) |->
                      LineTo(AffineApply(p.transform, corners[k + 1])) ]
               \o << ClosePath >>

RECURSIVE LoopsOf(_, _)
LoopsOf(tiles, k) ==
    IF k > Len(tiles) THEN << >> ELSE LoopOf(tiles[k]) \o LoopsOf(tiles, k + 1)

PathOps == { "to_bez_path", "main_to_bez_path" }

\* C11: for every placement list the path returned by to_bez_path, of
\* tiling.rs and of main.rs alike, is the succession of the placements'
\* loops, each a MoveTo to the first corner, n-1 LineTo's and a ClosePath;
\* so both functions return the same element sequence.
C11_BothEmitClosedLoops ==
    (pc = "done" /\ op \in PathOps /\ ValidInput) => path = LoopsOf(input, 1)

\* What holds: the path of tiling.rs is that succession of loops.
TilingPathIsClosedLoops ==
    (Returned("to_bez_path") /\ ValidInput) => path = LoopsOf(input, 1)

\* What main.rs returns for one square: a MoveTo and n+1 LineTo's (the
\* first corner three times), no ClosePath.
MainPathOfOneSquare ==
    /\ Returned("main_to_bez_path") /\ rules = SQUARE_GRID
    /\ input = << Placement(0, IDENTITY) >>
    /\ path = << MoveTo(Pt(0, 0)), LineTo(Pt(0, 0)), LineTo(Pt(0, 1)),
                 LineTo(Pt(1, 1)), LineTo(Pt(1, 0)), LineTo(Pt(0, 0)) >>

\* ----------------------------------------------------------- C12 ----
OnCorner(sel, j) == sel.kind = "Points" /\ sel.shape = j

\* C12: whatever the selection, a click without shift on corner i of
\* placement j makes the selection Points{j, [i]} and one on the silhouette
\* of placement j makes it Shapes{[j]}; a click with shift on a corner of
\* placement j, the selection not being a corner selection on j, makes it
\* Points{j, [i]}.
C12_ClickReplacesSelection ==
    [][ LET ev == frame'
        IN  /\ (ev.kind = "click_point" /\ ~ev.shift)
                 => selection' = Points(ev.j, << ev.i >>)
            /\ (ev.kind = "click_shape" /\ ~ev.shift)
                 => selection' = Shapes(<< ev.j >>)
            /\ (ev.kind = "click_point" /\ ev.shift /\ ~OnCorner(selection, ev.j))
                 => selection' = Points(ev.j, << ev.i >>) ]_vars

\* A click on a corner of the second placement after a drag of the first:
\* the shape selection of the drag is replaced.
C12_Witness ==
    /\ frame.kind = "click_point" /\ frame.j = 1 /\ frame.i = 1
    /\ selection = Points(1, << 1 >>)
    /\ drag_transforms # << >> /\ gestures = 1

\* ----------------------------------------------------------- C13 ----
\* The list v without x.
Without(v, x) == SelectSeq(v, LAMBDA y : y # x)

\* C13: a click with shift on corner i of placement j, the selection being
\* a corner selection on j, toggles i: appended if absent, removed if
\* present, the other corners staying selected in either case.
C13_ShiftClickTogglesCorner ==
    [][ LET ev == frame'
        IN  (ev.kind = "click_point" /\ ev.shift /\ OnCorner(selection, ev.j))
               => /\ selection'.kind = "Points"
                  /\ selection'.shape = ev.j
                  /\ selection'.corners =
                        IF contains(selection.corners, ev.i)
                        THEN Without(selection.corners, ev.i)
                        ELSE Append(selection.corners, ev.i) ]_vars

\* What holds: an absent corner is appended; a present corner becomes the
\* whole selection.
ShiftClickKeepsOnlyClicked ==
    [][ LET ev == frame'
        IN  (ev.kind = "click_point" /\ ev.shift /\ OnCorner(selection, ev.j))
               => selection' =
                    IF contains(selection.corners, ev.i)
                    THEN Points(ev.j, << ev.i >>)
                    ELSE Points(ev.j, Append(selection.corners, ev.i)) ]_vars

\* ----------------------------------------------------------- C14 ----
\* C14: a click with shift on placement j toggles j in a shape selection
\* and leaves the other members alone: click a, shift-click b gives
\* Shapes{[a, b]}, shift-click a then gives Shapes{[b]}.
C14_ShiftClickTogglesShape ==
    [][ LET ev == frame'
        IN  (ev.kind = "click_shape" /\ ev.shift /\ selection.kind = "Shapes")
               => IF contains(selection.shapes, ev.j)
                  THEN IF Without(selection.shapes, ev.j) = << >>
                       THEN selection' \in { NoSelection, Shapes(<< >>) }
                       ELSE selection' = Shapes(Without(selection.shapes, ev.j))
                  ELSE selection' = Shapes(Append(selection.shapes, ev.j)) ]_vars

\* What holds: a placement that is not selected is appended (discovery
\* order); a selected one becomes the whole selection.
ShiftClickKeepsOnlyClickedShape ==
    [][ LET ev == frame'
        IN  (ev.kind = "click_shape" /\ ev.shift /\ selection.kind = "Shapes")
               => selection' =
                    IF contains(selection.shapes, ev.j)
                    THEN Shapes(<< ev.j >>)
                    ELSE Shapes(Append(selection.shapes, ev.j)) ]_vars

\* Click a, shift-click b.
TwoShapesInDiscoveryOrder ==
    /\ frame.kind = "click_shape" /\ frame.shift /\ frame.j = 0
    /\ selection = Shapes(<< 1, 0 >>)

\* ----------------------------------------------------------- C15 ----
\* The transforms of the selected placements, in selection order.
SelectedTransforms(result, shapes) ==
    [ k \in 1..Len(shapes) |-> result[shapes[k] + 1].transform ]

\* C15: a drag-start on placement j selects j alone and begins the drag if
\* j is not selected and shift is up, begins no drag (empty snapshot list,
\* nothing changed, and no later frame of the gesture changes a transform
\* or the selection) if j is not selected and shift is down, and keeps the
\* selection if j is selected; a drag that begins has the snapshot of every
\* selected placement's transform as it was before, in selection order,
\* and drag_activated false.
C15_DragStart ==
    [][ LET ev == frame'
        IN  /\ ev.kind = "drag_started"
                 => /\ (~is_selected(selection, ev.j) /\ ~ev.shift)
                         => selection' = Shapes(<< ev.j >>) /\ drag_transforms' # << >>
                    /\ (~is_selected(selection, ev.j) /\ ev.shift)
                         => /\ drag_transforms' = << >>
                            /\ selection' = selection
                            /\ rules' = rules
                    /\ is_selected(selection, ev.j)
                         => selection' = selection /\ drag_transforms' # << >>
                    /\ drag_transforms' # << >>
                         => /\ drag_transforms' =
                                 SelectedTransforms(Result, selection'.shapes)
                            /\ ~drag_activated'
                            /\ drag_start_p' = ev.p
            /\ (ev.kind = "dragged" /\ drag_transforms = << >>)
                 => rules' = rules /\ selection' = selection ]_vars

\* A drag-start on one of two selected placements, the other selected
\* first: both snapshots, in selection order.
C15_Witness ==
    /\ frame.kind = "drag_started" /\ frame.j = 0
    /\ selection = Shapes(<< 1, 0 >>)
    /\ drag_transforms = SelectedTransforms(EDIT_RULES[1].result, << 1, 0 >>)
    /\ ~drag_activated

\* A refused drag-start, and a dragged frame after it.
ShiftDragStartRefused ==
    /\ frame.kind = "dragged" /\ frame.p = << 46, 40 >>
    /\ drag_transforms = << >>
    /\ ~is_selected(selection, frame.j)
    /\ rules = EDIT_RULES

\* ----------------------------------------------------------- C16 ----
\* C16: a dragged frame of a gesture in which the pointer has never been
\* more than DRAG_START away from where the drag started changes no
\* placement transform, whatever the snap flag, shift and the points are.
C16_NoMoveBelowThreshold ==
    [][ (frame'.kind = "dragged" /\ ~drag_activated') => rules' = rules ]_vars

\* What holds: below the threshold only the snap moves placements.
BelowThresholdOnlySnapMoves ==
    [][ (frame'.kind \in { "drag_started", "dragged" } /\ ~drag_activated'
           /\ (~snap \/ frame'.shift))
          => rules' = rules ]_vars

\* A placement snapped by a frame of a gesture that never left the
\* threshold.
SnappedBelowThreshold ==
    /\ frame.kind = "dragged" /\ ~drag_activated /\ gestures = 1
    /\ drag_transforms # << >>
    /\ rules # EDIT_RULES

\* ----------------------------------------------------------- C17 ----
\* No snap has engaged in the frame that led to this state: the flag is
\* off, shift is down, or no target is within the snap distance of a
\* point of the selection.
NoSnapEngaged ==
    \/ ~snap
    \/ frame.shift
    \/ LET targets == snap_targets(Result, selection.shapes)
           movable == rule_points(Result, selection.shapes)
       IN  \A t \in 1..Len(targets), f \in 1..Len(movable) :
              ~WithinSnap(length_squared(Sub(targets[t], movable[f])))

DragInProgress ==
    /\ frame.kind \in { "drag_started", "dragged" }
    /\ drag_transforms # << >>
    /\ selection.kind = "Shapes"

\* C17: after a dragged frame of an activated drag in which no snap
\* engages, every selected placement's transform is its own snapshot
\* translated by the pointer's displacement since the drag-start, mapped
\* through the inverse view: a function of the snapshot and the current
\* pointer alone.
C17_SnapshotPlusDisplacement ==
    [][ (DragInProgress' /\ drag_activated' /\ NoSnapEngaged')
          => /\ drag_transforms' = drag_transforms \/ frame'.kind = "drag_started"
             /\ \A k \in 1..Len(selection'.shapes) :
                  Result'[selection'.shapes[k] + 1].transform =
                    then_translate(drag_transforms'[k],
                                   Sub(InverseView(frame'.p), InverseView(drag_start_p'))) ]_vars

\* The second placement dragged past the threshold, then back to 5 units
\* from the start: it sits at its snapshot plus (6,-8)/Unit.
C17_Witness ==
    /\ DragInProgress /\ drag_activated /\ NoSnapEngaged
    /\ frame.p = << 43, 44 >>
    /\ selection = Shapes(<< 1 >>)
    /\ drag_transforms = << EDIT_RULES[1].result[2].transform >>
    /\ Result[2].transform = AffineTranslate(<< Unit - 10 + 6, -8 >>)

\* ----------------------------------------------------------- C18 ----
\* C18: within a gesture drag_activated, once set by a frame that saw the
\* pointer more than DRAG_START away, stays set, and the drag goes on
\* being applied when the pointer is back within DRAG_START; every drag
\* that begins begins with drag_activated false.
C18_ActivationSticky ==
    [][ LET ev == frame'
            far == length_squared(Sub(ev.p, drag_start_p)) > DRAG_START * DRAG_START
        IN  /\ (ev.kind = "dragged" /\ drag_activated) => drag_activated'
            /\ (ev.kind = "dragged" /\ DragInProgress' /\ far) => drag_activated'
            /\ (ev.kind = "dragged" /\ DragInProgress' /\ drag_activated /\ ~far
                   /\ NoSnapEngaged')
                 => Result' = apply_drag(Result, selection.shapes, drag_transforms,
                                         movement_draw(drag_start_p, ev.p))
            /\ (ev.kind = "drag_started" /\ drag_transforms' # << >>)
                 => ~drag_activated' ]_vars

\* A second drag begins after the first one moved the second placement by
\* (12,0)/Unit: the flag is down again.
C18_Witness ==
    /\ frame.kind = "drag_started" /\ gestures = 2
    /\ drag_transforms = << AffineTranslate(<< Unit + 2, 0 >>) >>
    /\ selection = Shapes(<< 1 >>)
    /\ ~drag_activated

\* An activated drag with the pointer back within the threshold.
StillActivatedNearStart ==
    /\ frame.kind = "dragged" /\ frame.p = << 43, 44 >>
    /\ DragInProgress /\ drag_activated

\* ----------------------------------------------------------- C19 ----
\* Where the frame's raw drag puts the placements: the selected ones at
\* their snapshots plus the displacement if the drag is activated after
\* the frame, everything where it was otherwise.
RawDrag ==
    IF drag_activated'
    THEN apply_drag(Result, selection'.shapes, drag_transforms',
                    movement_draw(drag_start_p', frame'.p))
    ELSE Result

PairDistance(targets, movable, pr) ==
    length_squared(Sub(targets[pr[1]], movable[pr[2]]))

\* The pairs <<target index, movable index>> within the snap distance.
PairsWithin(targets, movable) ==
    { pr \in (1..Len(targets)) \X (1..Len(movable)) :
        WithinSnap(PairDistance(targets, movable, pr)) }

\* The closest of them; among equally close ones the first visited, the
\* targets being the outer loop.
ClosestPair(targets, movable) ==
    CHOOSE pr \in PairsWithin(targets, movable) :
        \A o \in PairsWithin(targets, movable) :
            \/ PairDistance(targets, movable, pr) < PairDistance(targets, movable, o)
            \/ /\ PairDistance(targets, movable, pr) = PairDistance(targets, movable, o)
               /\ (pr[1] < o[1] \/ (pr[1] = o[1] /\ pr[2] <= o[2]))

\* C19: in a frame of an applied drag with snap on and shift up, if some
\* target is within the snap distance of some point of the selection
\* after the raw drag, every selected placement is translated further by
\* target - movable of the closest such pair (the first found on ties),
\* the others stay, and the movable point of the pair ends on the target.
C19_SnapToClosestPair ==
    [][ LET shapes == selection'.shapes
            targets == snap_targets(RawDrag, shapes)
            movable == rule_points(RawDrag, shapes)
        IN  (DragInProgress' /\ drag_activated' /\ snap /\ ~frame'.shift
               /\ PairsWithin(targets, movable) # { })
              => LET pr == ClosestPair(targets, movable)
                     movement == Sub(targets[pr[1]], movable[pr[2]])
                 IN  /\ \A k \in 1..Len(Result) :
                          Result'[k] =
                            IF contains(shapes, k - 1)
                            THEN [ RawDrag[k] EXCEPT !.transform =
                                     then_translate(@, movement) ]
                            ELSE RawDrag[k]
                     /\ rule_points(Result', shapes)[pr[2]] = targets[pr[1]] ]_vars

\* Both placements dragged by (12,0)/Unit, the second selected first: its
\* corner 0 comes within 2/Unit of corner 1 of the rule's tile and both
\* placements are moved by (-2,0)/Unit.
C19_Witness ==
    /\ DragInProgress /\ drag_activated /\ snap /\ ~frame.shift
    /\ frame.p = << 46, 40 >>
    /\ selection = Shapes(<< 1, 0 >>)
    /\ drag_transforms = SelectedTransforms(EDIT_RULES[1].result, << 1, 0 >>)
    /\ Result[2].transform = AffineTranslate(<< Unit, 0 >>)
    /\ Result[1].transform = then_translate(ROT180, << 2 * Unit + 12, 1 >>)

\* The second placement dragged alone by (12,0)/Unit: the pair found
\* first is 2/Unit apart, a later one 1/Unit; the later one is taken.
CloserPairFoundLater ==
    /\ DragInProgress /\ drag_activated /\ snap /\ ~frame.shift
    /\ frame.p = << 46, 40 >>
    /\ selection = Shapes(<< 1 >>)
    /\ drag_transforms = << EDIT_RULES[1].result[2].transform >>
    /\ Result[2].transform = AffineTranslate(<< Unit + 2, 1 >>)

SnapOffRawDragStands ==
    /\ DragInProgress /\ drag_activated /\ ~snap /\ ~frame.shift
    /\ selection = Shapes(<< 1 >>)
    /\ drag_transforms = << EDIT_RULES[1].result[2].transform >>
    /\ Result[2].transform = AffineTranslate(<< Unit + 2, 0 >>)

ShiftDownRawDragStands ==
    /\ DragInProgress /\ drag_activated /\ snap /\ frame.shift
    /\ selection = Shapes(<< 1 >>)
    /\ drag_transforms = << EDIT_RULES[1].result[2].transform >>
    /\ Result[2].transform = AffineTranslate(<< Unit + 2, 0 >>)

\* ----------------------------------------------------------- C24 ----
\* The tight axis-aligned bounding rectangle of the transformed corners
\* corners[k..] of a tile (it has a corner).
RECURSIVE TightBox(_, _, _)
TightBox(corners, t, k) ==
    LET p == AffineApply(t, corners[k])
    IN  IF k = Len(corners) THEN << p[1], p[2], p[1], p[2] >>
        ELSE RectUnionPt(TightBox(corners, t, k + 1), p)

InflatedBox(r) ==
    LET max_size == FMax(RectWidth(r), RectHeight(r))
    IN  RectInflate(r, max_size, max_size)

\* C24: for every placement whose estimated rectangle expand_bound takes,
\* estimate_bounds is the tight bounding rectangle of the transformed
\* corners of its tile, and of nothing else, inflated on every side by the
\* larger dimension of that rectangle.
C24_EstimateIsInflatedTightBox ==
    (AtBoundTile /\ HasCorners(a[idx + 1]))
        => estimate_bounds(a[idx + 1])
             = InflatedBox(TightBox(rules[a[idx + 1].tile_id + 1].tile.corners,
                                    a[idx + 1].transform, 1))

\* What the code does: the rectangle also covers the image of the tile's
\* local origin (the translation part of the transform).
EstimateCoversLocalOrigin ==
    (AtBoundTile /\ HasCorners(a[idx + 1]))
        => estimate_bounds(a[idx + 1])
             = InflatedBox(RectUnionPt(
                   TightBox(rules[a[idx + 1].tile_id + 1].tile.corners,
                            a[idx + 1].transform, 1),
                   translation(a[idx + 1].transform)))

\* A tile whose only corner is not its local origin gets a rectangle
\* larger than its corner.
EstimateLargerThanCorners ==
    /\ AtBoundTile /\ rules = PLACEHOLDER
    /\ a[idx + 1] = Placement(1, IDENTITY)
    /\ estimate_bounds(a[idx + 1]) = << Num(-1), Num(-1), Num(2), Num(2) >>

\* ----------------------------------------------------------- C25 ----
\* The sample configurations of main.rs by their rule structure: SQUARE_GRID
\* (one rule) and socolar_5 (two rules that refer to each other; TWO_TILE
\* has that structure on coordinates the model can hold).
Samples == { SQUARE_GRID, TWO_TILE }

\* C25: expand_0_levels seeds the run with exactly one placement, its
\* transform the uniform scale initial_scale and its tile id an index into
\* the rules of every sample configuration, and calls expand_bound when a
\* bound is given and expand_levels otherwise, with the limit
\* Some(DEFAULT_POLYGON_LIMIT).
C25_SeedIsValidRoot ==
    [][ op = "expand_0_levels"
          => /\ Len(input') = 1
             /\ input'[1].transform = AffineScale(initial_scale[1])
             /\ rules \in Samples => ValidId(input'[1].tile_id)
             /\ max_tiles' = Some(DEFAULT_POLYGON_LIMIT)
             /\ op' = IF bounds # None THEN "expand_bound" ELSE "expand_levels"
             /\ bounds # None => bounds' = bounds[1] ]_vars

\* What the code does: the seed is always tile 1.
SeedIsTileOne ==
    [][ op = "expand_0_levels"
          => /\ input' = << Placement(1, AffineScale(initial_scale[1])) >>
             /\ max_tiles' = Some(DEFAULT_POLYGON_LIMIT)
             /\ op' = IF bounds # None THEN "expand_bound" ELSE "expand_levels"
             /\ bounds # None => bounds' = bounds[1] ]_vars

\* With SQUARE_GRID and one level the seed is looked up and the run faults.
SquareGridSeedFaults ==
    /\ initial_scale # None /\ rules = SQUARE_GRID /\ levels >= 1
    /\ pc = "fault"

\* ----------------------------------------------------------- C26 ----
\* The outcome of a run as a function of the rule set and the arguments
\* alone: one pass over a generation, then the remaining levels.  The
\* outcome is a fault or the list the call appends.
RunFault == [fault |-> TRUE, out |-> << >>]

RunOut(out) == [fault |-> FALSE, out |-> out]

RECURSIVE RunPass(_, _, _)
RunPass(gen, k, acc) ==
    IF k > Len(gen) THEN RunOut(acc)
    ELSE IF ~ValidId(gen[k].tile_id) THEN RunFault
    ELSE IF op = "expand_bound" /\ Culled(gen[k]) THEN RunPass(gen, k + 1, acc)
    ELSE LET nb == expand_tile(gen[k], acc)
         IN  IF LimitExceeded(nb) THEN RunOut(nb) ELSE RunPass(gen, k + 1, nb)

RECURSIVE RunLevels(_, _)
RunLevels(gen, n) ==
    IF n = 0 THEN RunOut(gen)
    ELSE LET g == RunPass(gen, 1, << >>)
         IN  IF g.fault THEN RunFault ELSE RunLevels(g.out, n - 1)

\* The state of a run agrees with the outcome its arguments determine: the
\* output vector is the prior content until the call returns, and then the
\* prior content followed by the determined list; the call faults exactly
\* when the outcome is a fault.
RunDetermined ==
    LET run == RunLevels(input, levels)
    IN  /\ pc \in { "call", "loop", "fault" } => output = prior
        /\ pc = "fault" => run.fault
        /\ pc = "done" => /\ ~run.fault
                          /\ IsPrefix(prior, output)
                          /\ Appended = run.out

\* C26: expand_levels and expand_bound are deterministic and stateless: no
\* step of a run changes the rule set, the input list or another argument;
\* what the call appends is determined by the rule set, the input, the
\* levels, the bound and the limit alone (not by the earlier content of
\* the output vector nor by anything an earlier pass left behind), so two
\* runs with the same arguments append the same list; the earlier content
\* of the output vector stays in front of it.
C26_DeterministicStateless ==
    /\ [](Expanding => RunDetermined)
    /\ [][ Expanding => /\ rules' = rules
                        /\ input' = input
                        /\ << levels', bounds', max_tiles' >>
                             = << levels, bounds, max_tiles >> ]_vars

\* A bounded run with a limit, onto a non-empty output vector, that
\* returned a list other than the unbounded second generation.
C26_Witness ==
    /\ Returned("expand_bound") /\ prior # << >> /\ levels = 2
    /\ max_tiles # None /\ ValidRules /\ ValidInput
    /\ Appended # << >>
    /\ Appended # Generation(input, 2)

\* ----------------------------------------------------------- C29 ----
\* C29: in expand_bound the cull test decides which placements are
\* expanded and is never applied to what is returned.  With levels = 0 the
\* input is returned unchanged for every bound.  A placement that passes
\* the test contributes all of its children, whatever their own estimated
\* rectangles; a finished pass hands the whole list on and the return
\* appends the whole last generation; so with valid ids the result is the
\* children of all expanded placements of the generation before.
C29_CullingOnlyBeforeExpansion ==
    /\ []((Returned("expand_bound") /\ levels = 0) => Appended = input)
    /\ []((Returned("expand_bound") /\ levels >= 1 /\ ValidRules /\ ValidInput)
            => LET g == TruncGeneration(levels - 1)
               IN  Appended = KeptChildren(g, 1, HaltIndex(g)))
    /\ [][ (op = "expand_bound" /\ pc = "loop")
             => /\ (AtBoundTile /\ ~Culled(a[idx + 1]))
                     => (IF i' = i THEN b' ELSE a') = b \o ChildrenOf(a[idx + 1])
                /\ (i < levels /\ idx = Len(a)) => a' = b
                /\ i >= levels => output' = output \o a ]_vars

\* A returned generation that holds a child whose own estimated rectangle
\* fails the cull test, and a run with levels = 0 whose input does.
C29_Witness ==
    /\ Returned("expand_bound") /\ ValidRules /\ ValidInput
    /\ Appended # << >>
    /\ \E k \in 1..Len(Appended) :
          ~RectsMeet(estimate_bounds(Appended[k]), bounds)
    /\ levels >= 1

ZeroLevelsKeepsCulledInput ==
    /\ Returned("expand_bound") /\ ValidRules /\ ValidInput
    /\ levels = 0 /\ bounds = FAR_BOUND
    /\ Appended = input /\ Len(input) = 2
    /\ \A k \in 1..Len(input) : Culled(input[k])

\* ----------------------------------------------------------- C21 ----
\* C21: a frame in which only the background is clicked ends with the
\* selection None; a frame in which the background is clicked and a corner
\* or a placement is clicked or drag-started as well ends with the
\* selection that corner or placement event sets.
C21_BackgroundClickDeselects ==
    [][ /\ frame'.kind = "click_background" => selection' = NoSelection
        /\ frame'.kind = "click_point_background"
              => selection' = click_point(selection, frame'.j, frame'.i, frame'.shift)
        /\ frame'.kind = "click_shape_background"
              => selection' = update_tile_selection(selection, frame'.j, frame'.shift)
        /\ frame'.kind = "drag_started_background"
              => selection' = DragSelection(selection, frame'.j, frame'.shift) ]_vars

\* What the code does: only a click on a corner or a placement keeps the
\* background click from resetting the selection; a drag-start does not.
OnlyClicksShieldSelection ==
    [][ /\ frame'.kind = "click_background" => selection' = NoSelection
        /\ frame'.kind = "click_point_background"
              => selection' = click_point(selection, frame'.j, frame'.i, frame'.shift)
        /\ frame'.kind = "click_shape_background"
              => selection' = update_tile_selection(selection, frame'.j, frame'.shift)
        /\ frame'.kind = "drag_started_background" => selection' = NoSelection ]_vars

\* A drag-start with a background click that took snapshots of the
\* placement it selected and left nothing selected.
DragStartDeselected ==
    /\ frame.kind = "drag_started_background" /\ ~frame.shift
    /\ Len(drag_transforms) = 1
    /\ selection = NoSelection

\* ----------------------------------------------------------- C22 ----
\* C22: whenever current_tile is no index into rules (current_tile =
\* rules.len() included), the frame finds this out before it reads
\* rules[current_tile]: it does not fault, draws nothing and leaves the
\* rules and the window state as they are.
C22_InvalidIndexNotDrawn ==
    [][ ~InRange
          => /\ pc' # "fault"
             /\ frame'.kind = "not_drawn"
             /\ UNCHANGED << rules, current_tile, selection, drag_transforms,
                             drag_start_p, drag_activated, snap >> ]_vars

\* What the code does: the test lets current_tile = rules.len() through,
\* and the frame faults on it; an index beyond that is not drawn.
OnlyBeyondLengthNotDrawn ==
    [][ ~InRange
          => IF current_tile = Len(rules)
             THEN pc' = "fault"
             ELSE /\ pc' # "fault"
                  /\ frame'.kind = "not_drawn"
                  /\ UNCHANGED << rules, current_tile, selection, drag_transforms,
                                  drag_start_p, drag_activated, snap >> ]_vars

\* The default window on TilingStep::new() has faulted.
DefaultWindowFaults ==
    /\ rules = NEW_STEP /\ current_tile = 0 /\ selection = NoSelection
    /\ pc = "fault"

\* An index beyond the length was not drawn.
BeyondLengthNotDrawn ==
    /\ rules = NEW_STEP /\ current_tile = 1
    /\ frame.kind = "not_drawn" /\ pc = "call"

\* ----------------------------------------------------------- C28 ----
NoDuplicate(v) == \A k, m \in 1..Len(v) : v[k] = v[m] => k = m

TwoSelected ==
    \/ selection.kind = "Shapes" /\ Len(selection.shapes) = 2
    \/ selection.kind = "Points" /\ Len(selection.corners) = 2

\* ----------------------------------------------------------- C23 ----
\* The snapshot list and the shape selection agree: as many snapshots as
\* selected placements, every selected placement one of the current rule.
ListsAgree(snapshots, sel) ==
    /\ sel.kind = "Shapes"
    /\ Len(snapshots) = Len(sel.shapes)
    /\ \A k \in 1..Len(sel.shapes) : sel.shapes[k] \in PlacementIds

DragAfterRuleChange ==
    /\ frame.kind = "dragged" /\ drag_activated
    /\ current_tile = 1 /\ selection = Shapes(<< 0 >>) /\ Len(drag_transforms) = 1
    /\ Result[1].transform # drag_transforms[1]

\* ----------------------------------------------------------- C27 ----
\* The shape selection the dragged block of a frame works on.
BlockSelection ==
    IF frame'.kind = "dragged" THEN selection
    ELSE DragSelection(selection, frame'.j, frame'.shift)

\* C27: no frame changes the number of rules, a tile's corners, the length
\* or order of a result list or a tile_id; the only thing a frame changes
\* in the TilingStep is the transform of placements of the current rule
\* that are in the shape selection of a frame that applies a drag or a
\* snap; the other rules and the unselected placements of the current rule
\* stay as they are.  Frame by frame, so after any sequence of frames.
C27_OnlySelectedTransformsChange ==
    [][ /\ Len(rules') = Len(rules)
        /\ \A r \in 1..Len(rules) :
              /\ rules'[r].tile = rules[r].tile
              /\ Len(rules'[r].result) = Len(rules[r].result)
              /\ \A k \in 1..Len(rules[r].result) :
                    /\ rules'[r].result[k].tile_id = rules[r].result[k].tile_id
                    /\ rules'[r].result[k].transform # rules[r].result[k].transform
                          => /\ r = current_tile + 1
                             /\ current_tile' = current_tile
                             /\ frame'.kind \in { "drag_started", "dragged",
                                                   "drag_started_background" }
                             /\ Len(drag_transforms') > 0
                             /\ BlockSelection.kind = "Shapes"
                             /\ contains(BlockSelection.shapes, k - 1)
                             /\ drag_activated' \/ (snap /\ ~frame'.shift) ]_vars

\* A dragged frame has moved the selected second placement of the first
\* rule; the first placement and the second rule are as at the start.
C27_Witness ==
    /\ rules # NEW_STEP /\ current_tile = 0
    /\ frame.kind = "dragged" /\ drag_activated
    /\ selection = Shapes(<< 1 >>)
    /\ rules[1].result[2].transform # WINDOW_RULES[1].result[2].transform
    /\ rules[1].result[2].tile_id = WINDOW_RULES[1].result[2].tile_id
    /\ rules[1].result[1] = WINDOW_RULES[1].result[1]
    /\ rules[1].tile = WINDOW_RULES[1].tile
    /\ rules[2] = WINDOW_RULES[2]

\* The placement of the second rule moved, the first rule untouched.
SecondRuleEdited ==
    /\ rules # NEW_STEP /\ current_tile = 1
    /\ rules[2].result[1].transform # WINDOW_RULES[2].result[1].transform
    /\ rules[1] = WINDOW_RULES[1]

====
